---- MODULE Spec2Model ----
(***************************************************************************)
(* A model of the Direct3D 12 backend of the SDL GPU API                   *)
(* (src/src/gpu/d3d12/SDL_gpu_d3d12.c).                                    *)
(*                                                                         *)
(* The backend is modelled as a handful of sub-machines that share one     *)
(* module.  Every sub-machine has its own next-state relation and its own  *)
(* specification; a sub-machine leaves the variables of the others alone.  *)
(*                                                                         *)
(*   SpecUniform  the per-slot uniform sub-allocator of a command buffer   *)
(*   SpecCycle    resource cycling in the Prepare...ForWrite helpers       *)
(*   SpecPass     resource states across render and compute passes         *)
(*   SpecHeap     the staging heap of CPU descriptors                      *)
(*   Spec         submission, fences and waits of an application that      *)
(*                presents no window; FairSpec adds the GPU's progress     *)
(*   SpecPresent  submission and frame pacing of a window in VSYNC mode    *)
(*   SpecWindow   the window's swapchain: present modes, parameter changes *)
(*                and unclaiming                                           *)
(*   SpecConcurrent  SubmitAndAcquireFence while other threads call the    *)
(*                device                                                   *)
(*   SpecDestroy  release of buffers and textures and deferred destruction *)
(*   SpecFrame    rendering to the back buffer and presenting it, frame    *)
(*                after frame                                              *)
(*   SpecLock     the submit lock of Submit, Wait and WaitForFences        *)
(*   SpecWrappers the pool of uniform wrappers over several command        *)
(*                buffers                                                  *)
(*   SpecGpuHeaps the pools of GPU descriptor heaps                        *)
(*   SpecDepthStencil  the depth-stencil attachment of a render pass       *)
(*   SpecBlit     the colour attachment a blit begins its pass with        *)
(*   SpecTransfer blits and texture uploads, with the paths that give up   *)
(*   SpecPool     the list of available command buffers while one thread   *)
(*                retires command buffers and another acquires them        *)
(*   SpecSharedPools  two threads stepping through the locked sections of  *)
(*                the shared pools                                         *)
(*   SpecDownload texture downloads through a temporary buffer             *)
(*   SpecPush     successive pushes of uniform data into one slot          *)
(***************************************************************************)
EXTENDS Integers, Sequences, FiniteSets, TLC

\* The null pointer; objects are numbered from 1.
NULL == 0

(***************************************************************************)
(* Bounds of the uniform sub-allocator.                                    *)
(***************************************************************************)
\* Size in bytes of the upload buffer behind one uniform wrapper (scaled down).
UNIFORM_BUFFER_SIZE == 512
\* Uniform slots of one shader stage (scaled down).
MAX_UNIFORM_BUFFERS_PER_STAGE == 1
\* Uniform wrappers the device may create.
MaxUniformBuffers == 3
\* Draw calls recorded into one command buffer.
MaxDraws == 2
\* Distinct payloads an application pushes.
MaxData == 2
\* Times the command buffer is acquired.
MaxUses == 2

VARIABLES
    \* ---- uniform sub-allocator ----
    uniformBuffers,        \* wrapper -> [writeOffset, drawOffset, currentBlockSize]
    mapPointer,            \* wrapper -> TRUE iff buffer->mapPointer # NULL
    uniformMemory,         \* wrapper -> block -> payload stored in the upload heap
    uniformBufferCount,    \* wrappers created so far (wrappers 1..uniformBufferCount)
    uniformBufferPool,     \* renderer->uniformBufferPool, a stack
    slotUniformBuffers,    \* <<stage, slot>> -> wrapper in the command buffer slot
    needUniformBufferBind, \* <<stage, slot>> -> dirty flag
    usedUniformBuffers,    \* commandBuffer->usedUniformBuffers
    currentGraphicsPipeline, \* TRUE iff a graphics pipeline is bound
    rootCBV,               \* <<stage, slot>> -> <<wrapper, offset>> set on the command list
    ucbState,              \* "available" | "recording" | "submitted"
    ucbUses,               \* times the command buffer has been acquired
    draws,                 \* recorded draws: the views each one reads and what it should read
    lastPushed             \* <<stage, slot>> -> payload of the most recent push (0: none)

uniformVars == <<uniformBuffers, mapPointer, uniformMemory, uniformBufferCount,
                 uniformBufferPool, slotUniformBuffers, needUniformBufferBind,
                 usedUniformBuffers, currentGraphicsPipeline, rootCBV, ucbState,
                 ucbUses, draws, lastPushed>>

VARIABLES
    \* ---- textures, buffers and the command buffers that track them ----
    textureContainers,     \* container -> [activeTexture, textures]
    textures,              \* texture -> [container, subresources -> [referenceCount, state]]
    bufferContainers,      \* container -> [activeBuffer, buffers]
    buffers,               \* buffer -> [container, referenceCount, state, transitioned]
    rcb,                   \* command buffer -> its state, its used lists and its pass bindings
    lastPrepare,           \* what the Prepare...ForWrite call of the last handler returned
    passTouched            \* resources touched by the pass in progress or just ended

resourceVars == <<textureContainers, textures, bufferContainers, buffers, rcb,
                  lastPrepare, passTouched>>

VARIABLES
    \* ---- staging descriptor heap ----
    stagingDescriptorHeap, \* [currentDescriptorIndex, inactiveDescriptorIndices]
    cpuDescriptors         \* descriptor -> [heap, cpuHandleIndex]

heapVars == <<stagingDescriptorHeap, cpuDescriptors>>

VARIABLES
    \* ---- submission, fences and frame pacing ----
    commandBuffers,          \* command buffer -> [state, inFlightFence, autoReleaseFence, presentDataCount]
    availableCommandBuffers, \* renderer->availableCommandBuffers, a stack
    submittedCommandBuffers, \* renderer->submittedCommandBuffers
    fences,                  \* fence -> [created, value, event, onCompletion, referenceCount]
    availableFences,         \* renderer->availableFences, a stack
    commandQueue,            \* what the GPU has still to do, oldest first
    windowData,              \* [frameCounter, inFlightFences] of the one window
    heldFences,              \* fences the application got from SubmitAndAcquireFence
    thread,                  \* the call the application thread is in
    lastCall                 \* what the last call did

fenceVars == <<commandBuffers, availableCommandBuffers, submittedCommandBuffers,
               fences, availableFences, commandQueue, windowData, heldFences,
               thread, lastCall>>

VARIABLES
    caller,                  \* the swapchain operation the thread is inside of
    createdSwapchains        \* native swapchains the DXGI factory has created

windowVars == <<caller, createdSwapchains>>

VARIABLES
    fenceCall                \* the SubmitAndAcquireFence call a second thread is inside of

concurrentVars == <<fenceCall>>

VARIABLES
    buffersToDestroy,        \* renderer->buffersToDestroy
    texturesToDestroy,       \* renderer->texturesToDestroy
    lastDestroyed,           \* what the last D3D12_INTERNAL_PerformPendingDestroys destroyed
    indirectBuffers          \* per command buffer, the buffers its indirect draws read

destroyVars == <<buffersToDestroy, texturesToDestroy, lastDestroyed, indirectBuffers>>

VARIABLES
    submitLock,              \* the thread that owns renderer->submitLock, or NULL
    lockThreads,             \* thread -> the call it is in and where it is in it
    lockFenceValue           \* thread -> completed value of the fence its call waits on

lockVars == <<submitLock, lockThreads, lockFenceValue>>

VARIABLES
    wrappers,                \* uniform wrapper -> [writeOffset, drawOffset, currentBlockSize]
    wrapperMapped,           \* uniform wrapper -> TRUE iff buffer->mapPointer # NULL
    wrapperCount,            \* uniform wrappers created so far
    wrapperPool,             \* renderer->uniformBufferPool, a stack
    wcb                      \* command buffer -> [state, slots, usedUniformBuffers]

wrapperVars == <<wrappers, wrapperMapped, wrapperCount, wrapperPool, wcb>>

VARIABLES
    gpuHeaps,                \* heap type -> heap -> currentDescriptorIndex
    gpuHeapCount,            \* heap type -> GPU descriptor heaps created so far
    descriptorHeapPools,     \* heap type -> renderer->descriptorHeapPools[type].heaps, a stack
    hcb                      \* command buffer -> [state, gpuDescriptorHeaps]

gpuHeapVars == <<gpuHeaps, gpuHeapCount, descriptorHeapPools, hcb>>

VARIABLES
    depthStencilTexture,     \* [depth, stencil]: the values in the depth-stencil sub-resource
    depthStencilPass         \* the attachment info of the render pass in progress, or none

depthStencilVars == <<depthStencilTexture, depthStencilPass>>

VARIABLES
    lastBlit                 \* what the last D3D12_Blit was given and the loadOp it chose

blitVars == <<lastBlit>>

VARIABLES
    poolAllocated,           \* command buffers allocated so far
    poolAvailable,           \* renderer->availableCommandBuffers, as the two threads see it
    poolSubmitted,           \* renderer->submittedCommandBuffers
    poolAcquired,            \* command buffers AcquireCommandBuffer has handed out
    cleaner                  \* where the retiring thread is in D3D12_INTERNAL_CleanCommandBuffer

poolVars == <<poolAllocated, poolAvailable, poolSubmitted, poolAcquired, cleaner>>

VARIABLES
    sharedPools,             \* pool -> the pooled objects, a stack
    sharedPoolLocks,         \* pool -> the thread that owns the pool's lock, or NULL
    sharedPoolCreated,       \* pool -> objects created so far
    sharedPoolThreads,       \* thread -> [pc, pool, object]: where it is in a pool operation
    sharedPoolHeld           \* thread -> the <<pool, object>> pairs it has taken

sharedPoolVars == <<sharedPools, sharedPoolLocks, sharedPoolCreated, sharedPoolThreads,
                    sharedPoolHeld>>

VARIABLES
    downloadPc,              \* "idle", "recorded", "executed" or "retired"
    downloadCount,           \* downloads recorded so far
    textureDownload,         \* the D3D12TextureDownload of the recorded download
    temporaryBufferBytes,    \* contents of the temporary download buffer
    destinationBufferBytes   \* contents of the destination transfer buffer

downloadVars == <<downloadPc, downloadCount, textureDownload, temporaryBufferBytes,
                  destinationBufferBytes>>

VARIABLES
    pushWrappers,            \* wrapper -> [writeOffset, drawOffset, currentBlockSize]
    pushMapped,              \* wrapper -> TRUE iff it is mapped
    pushWrapperCount,        \* wrappers created so far
    pushPool,                \* renderer->uniformBufferPool, a stack
    pcb,                     \* the command buffer: [state, uses, commandCount, slots, used]
    lastPush                 \* what the latest step did, if it was a push

pushVars == <<pushWrappers, pushMapped, pushWrapperCount, pushPool, pcb, lastPush>>

vars ==
    <<uniformVars, resourceVars, heapVars, fenceVars, windowVars, concurrentVars, destroyVars,
      lockVars,
      wrapperVars,
      gpuHeapVars,
      depthStencilVars,
      blitVars,
      poolVars,
      sharedPoolVars,
      downloadVars,
      pushVars>>

nonUniformVars ==
    <<resourceVars, heapVars, fenceVars, windowVars, concurrentVars, destroyVars,
      lockVars,
      wrapperVars,
      gpuHeapVars,
      depthStencilVars,
      blitVars,
      poolVars,
      sharedPoolVars,
      downloadVars,
      pushVars>>
nonResourceVars ==
    <<uniformVars, heapVars, fenceVars, windowVars, concurrentVars, destroyVars,
      lockVars,
      wrapperVars,
      gpuHeapVars,
      depthStencilVars,
      blitVars,
      poolVars,
      sharedPoolVars,
      downloadVars,
      pushVars>>
nonHeapVars ==
    <<uniformVars, resourceVars, fenceVars, windowVars, concurrentVars, destroyVars,
      lockVars,
      wrapperVars,
      gpuHeapVars,
      depthStencilVars,
      blitVars,
      poolVars,
      sharedPoolVars,
      downloadVars,
      pushVars>>
nonFenceVars ==
    <<uniformVars, resourceVars, heapVars, windowVars, concurrentVars, destroyVars,
      lockVars,
      wrapperVars,
      gpuHeapVars,
      depthStencilVars,
      blitVars,
      poolVars,
      sharedPoolVars,
      downloadVars,
      pushVars>>
nonWindowVars ==
    <<uniformVars, resourceVars, heapVars, concurrentVars, destroyVars,
      lockVars,
      wrapperVars,
      gpuHeapVars,
      depthStencilVars,
      blitVars,
      poolVars,
      sharedPoolVars,
      downloadVars,
      pushVars>>
nonConcurrentVars == <<uniformVars, resourceVars, heapVars, windowVars, destroyVars,
      lockVars,
      wrapperVars,
      gpuHeapVars,
      depthStencilVars,
      blitVars,
      poolVars,
      sharedPoolVars,
      downloadVars,
      pushVars>>
nonDestroyVars == <<uniformVars, heapVars, fenceVars, windowVars, concurrentVars,
      lockVars,
      wrapperVars,
      gpuHeapVars,
      depthStencilVars,
      blitVars,
      poolVars,
      sharedPoolVars,
      downloadVars,
      pushVars>>
nonLockVars ==
    <<uniformVars, resourceVars, heapVars, fenceVars, windowVars, concurrentVars, destroyVars,
      wrapperVars,
      gpuHeapVars,
      depthStencilVars,
      blitVars,
      poolVars,
      sharedPoolVars,
      downloadVars,
      pushVars>>
nonWrapperVars ==
    <<uniformVars, resourceVars, heapVars, fenceVars,
      windowVars, concurrentVars, destroyVars, lockVars,
      gpuHeapVars,
      depthStencilVars,
      blitVars,
      poolVars,
      sharedPoolVars,
      downloadVars,
      pushVars>>
nonGpuHeapVars ==
    <<uniformVars, resourceVars, heapVars, fenceVars,
      windowVars, concurrentVars, destroyVars, lockVars, wrapperVars,
      depthStencilVars,
      blitVars,
      poolVars,
      sharedPoolVars,
      downloadVars,
      pushVars>>
nonDepthStencilVars ==
    <<uniformVars, resourceVars, heapVars, fenceVars, windowVars,
      concurrentVars, destroyVars, lockVars, wrapperVars, gpuHeapVars,
      blitVars,
      poolVars,
      sharedPoolVars,
      downloadVars,
      pushVars>>
nonBlitVars ==
    <<uniformVars, resourceVars, heapVars, fenceVars, windowVars,
      concurrentVars, destroyVars, lockVars, wrapperVars, gpuHeapVars, depthStencilVars,
      poolVars,
      sharedPoolVars,
      downloadVars,
      pushVars>>
nonPoolVars ==
    <<uniformVars, resourceVars, heapVars, fenceVars, windowVars, concurrentVars,
      destroyVars, lockVars, wrapperVars, gpuHeapVars, depthStencilVars, blitVars,
      sharedPoolVars,
      downloadVars,
      pushVars>>
nonSharedPoolVars ==
    <<uniformVars, resourceVars, heapVars, fenceVars, windowVars, concurrentVars,
      destroyVars, lockVars, wrapperVars, gpuHeapVars, depthStencilVars, blitVars, poolVars,
      downloadVars,
      pushVars>>
nonDownloadVars ==
    <<uniformVars, resourceVars, heapVars, fenceVars, windowVars, concurrentVars, destroyVars,
      lockVars, wrapperVars, gpuHeapVars, depthStencilVars, blitVars, poolVars, sharedPoolVars,
      pushVars>>
nonPushVars ==
    <<uniformVars, resourceVars, heapVars, fenceVars, windowVars, concurrentVars, destroyVars,
      lockVars, wrapperVars, gpuHeapVars, depthStencilVars, blitVars, poolVars, sharedPoolVars, downloadVars>>

(***************************************************************************)
(* Uniform sub-allocator                                                   *)
(***************************************************************************)
UniformWrappers == 1..MaxUniformBuffers
ShaderStages == {"VERTEX", "FRAGMENT"}
UniformSlots == ShaderStages \X (0..(MAX_UNIFORM_BUFFERS_PER_STAGE - 1))
UniformBlocks == 0..((UNIFORM_BUFFER_SIZE - 1) \div 256)
Data == 1..MaxData
\* Byte lengths an application pushes; each one fits a fresh wrapper.
PushLengths == {64, 300}

\* (location + (alignment - 1)) & ~(alignment - 1), alignment a power of two
D3D12_INTERNAL_Align(location, alignment) ==
    (location + (alignment - 1)) - ((location + (alignment - 1)) % alignment)

\* The allocator state the internal helpers transform; ret is a helper's result.
UniformState ==
    [ub |-> uniformBuffers, map |-> mapPointer, pool |-> uniformBufferPool,
     n |-> uniformBufferCount, used |-> usedUniformBuffers, ret |-> NULL]

D3D12_INTERNAL_TrackUniformBuffer(used, w) ==
    IF \E i \in 1..Len(used) : used[i] = w THEN used ELSE Append(used, w)

\* An acquisition that leaves the wrapper it hands out in the pool.
AcquireUniformBufferLeavesPool(s) ==
    LET fromPool == Len(s.pool) > 0
        w == IF fromPool THEN s.pool[Len(s.pool)] ELSE s.n + 1
    IN  [ub   |-> [s.ub EXCEPT ![w] =
                      [writeOffset |-> 0, drawOffset |-> 0, currentBlockSize |-> 0]],
         map  |-> [s.map EXCEPT ![w] = TRUE],
         pool |-> s.pool,
         n    |-> IF fromPool THEN s.n ELSE s.n + 1,
         used |-> D3D12_INTERNAL_TrackUniformBuffer(s.used, w),
         ret  |-> w]

D3D12_INTERNAL_AcquireUniformBufferFromPool(s) ==
    LET fromPool == Len(s.pool) > 0
        w == IF fromPool THEN s.pool[Len(s.pool)] ELSE s.n + 1
    IN  [ub   |-> [s.ub EXCEPT ![w] =
                      [writeOffset |-> 0, drawOffset |-> 0, currentBlockSize |-> 0]],
         map  |-> [s.map EXCEPT ![w] = TRUE],
         pool |-> IF fromPool THEN SubSeq(s.pool, 1, Len(s.pool) - 1) ELSE s.pool,
         n    |-> IF fromPool THEN s.n ELSE s.n + 1,
         used |-> D3D12_INTERNAL_TrackUniformBuffer(s.used, w),
         ret  |-> w]

\* The wrapper state after the write offset of wrapper w has been advanced.
AdvanceWriteOffset(ub, w) ==
    [ub EXCEPT ![w].writeOffset = @ + ub[w].currentBlockSize]

\* The allocator state after D3D12_INTERNAL_PushUniformData, and the wrapper and
\* offset the payload was copied to.
PushUniformDataResult(s0, k, dataLengthInBytes) ==
    LET s1 == IF slotUniformBuffers[k] = NULL
              THEN D3D12_INTERNAL_AcquireUniformBufferFromPool(s0)
              ELSE [s0 EXCEPT !.ret = slotUniformBuffers[k]]
        w1 == s1.ret
        block == D3D12_INTERNAL_Align(dataLengthInBytes, 256)
        s2 == [s1 EXCEPT !.ub[w1].currentBlockSize = block]
        noRoom == s2.ub[w1].writeOffset + block >= UNIFORM_BUFFER_SIZE
        s3 == IF noRoom
              THEN D3D12_INTERNAL_AcquireUniformBufferFromPool(
                       [s2 EXCEPT !.map[w1] = FALSE])
              ELSE s2
        w == s3.ret
        off == s3.ub[w].writeOffset
        s4 == [s3 EXCEPT !.ub[w].drawOffset = off]
    IN  [s4 EXCEPT !.ub = AdvanceWriteOffset(s4.ub, w), !.ret = <<w, off>>]

\* SDL_memcpy(mapPointer + writeOffset, data, dataLengthInBytes)
MemcpyBlocks(mem, off, data, dataLengthInBytes) ==
    [b \in UniformBlocks |->
        IF b >= off \div 256 /\ b <= (off + dataLengthInBytes - 1) \div 256
        THEN data ELSE mem[b]]

\* Wrappers the device can still hand out: pooled ones plus ones it may create.
UniformBuffersLeft ==
    Len(uniformBufferPool) + (MaxUniformBuffers - uniformBufferCount)

\* Wrappers a push takes: one if the slot is empty, one more if the slot's
\* wrapper has no room for the block.
PushWrappersNeeded(k, dataLengthInBytes) ==
    LET empty == slotUniformBuffers[k] = NULL
        writeOffset == IF empty THEN 0
                       ELSE uniformBuffers[slotUniformBuffers[k]].writeOffset
        noRoom == writeOffset + D3D12_INTERNAL_Align(dataLengthInBytes, 256)
                      >= UNIFORM_BUFFER_SIZE
    IN  (IF empty THEN 1 ELSE 0) + (IF noRoom THEN 1 ELSE 0)

UniformUnchangedByPush ==
    UNCHANGED <<currentGraphicsPipeline, rootCBV, ucbState, ucbUses, draws>>

PushUniformData(shaderStage, slotIndex, data, dataLengthInBytes) ==
    LET k == <<shaderStage, slotIndex>>
        s == PushUniformDataResult(UniformState, k, dataLengthInBytes)
        w == s.ret[1]
        off == s.ret[2]
    IN  /\ ucbState = "recording"
        /\ PushWrappersNeeded(k, dataLengthInBytes) <= UniformBuffersLeft
        /\ uniformBuffers' = s.ub
        /\ mapPointer' = s.map
        /\ uniformBufferPool' = s.pool
        /\ uniformBufferCount' = s.n
        /\ usedUniformBuffers' = s.used
        /\ slotUniformBuffers' = [slotUniformBuffers EXCEPT ![k] = w]
        /\ uniformMemory' = [uniformMemory EXCEPT ![w] =
                                MemcpyBlocks(@, off, data, dataLengthInBytes)]
        /\ needUniformBufferBind' = [needUniformBufferBind EXCEPT ![k] = TRUE]
        /\ lastPushed' = [lastPushed EXCEPT ![k] = data]
        /\ UniformUnchangedByPush
        /\ UNCHANGED nonUniformVars

\* The graphics pipelines of the model use every uniform slot of both stages.
D3D12_BindGraphicsPipeline ==
    LET missing == {k \in UniformSlots : slotUniformBuffers[k] = NULL}
        \* the acquisition loops, vertex slots first, then fragment slots
        order == [i \in 1..2 |-> IF i = 1 THEN "VERTEX" ELSE "FRAGMENT"]
        RECURSIVE Fill(_, _, _, _)
        Fill(s, slots, st, i) ==
            IF st > 2 THEN [s |-> s, slots |-> slots]
            ELSE IF i >= MAX_UNIFORM_BUFFERS_PER_STAGE THEN Fill(s, slots, st + 1, 0)
            ELSE IF slots[<<order[st], i>>] # NULL THEN Fill(s, slots, st, i + 1)
            ELSE LET a == D3D12_INTERNAL_AcquireUniformBufferFromPool(s)
                 IN  Fill(a, [slots EXCEPT ![<<order[st], i>>] = a.ret], st, i + 1)
        r == Fill(UniformState, slotUniformBuffers, 1, 0)
    IN  /\ ucbState = "recording"
        /\ Cardinality(missing) <= UniformBuffersLeft
        /\ currentGraphicsPipeline' = TRUE
        /\ needUniformBufferBind' = [k \in UniformSlots |-> TRUE]
        /\ uniformBuffers' = r.s.ub
        /\ mapPointer' = r.s.map
        /\ uniformBufferPool' = r.s.pool
        /\ uniformBufferCount' = r.s.n
        /\ usedUniformBuffers' = r.s.used
        /\ slotUniformBuffers' = r.slots
        /\ UNCHANGED <<uniformMemory, rootCBV, ucbState, ucbUses, draws, lastPushed>>
        /\ UNCHANGED nonUniformVars

\* The uniform loops of D3D12_INTERNAL_BindGraphicsResources: a dirty slot gets
\* the root constant buffer view wrapper address + drawOffset.
D3D12_INTERNAL_BindGraphicsResources(cbv) ==
    [k \in UniformSlots |->
        IF needUniformBufferBind[k]
        THEN <<slotUniformBuffers[k], uniformBuffers[slotUniformBuffers[k]].drawOffset>>
        ELSE cbv[k]]

D3D12_DrawPrimitives ==
    /\ ucbState = "recording"
    /\ currentGraphicsPipeline
    /\ Len(draws) < MaxDraws
    /\ rootCBV' = D3D12_INTERNAL_BindGraphicsResources(rootCBV)
    /\ needUniformBufferBind' = [k \in UniformSlots |-> FALSE]
    /\ draws' = Append(draws, [cbv |-> rootCBV', expect |-> lastPushed])
    /\ UNCHANGED <<uniformBuffers, mapPointer, uniformMemory, uniformBufferCount,
                   uniformBufferPool, slotUniformBuffers, usedUniformBuffers,
                   currentGraphicsPipeline, ucbState, ucbUses, lastPushed>>
    /\ UNCHANGED nonUniformVars

\* D3D12_AcquireCommandBuffer: the uniform slots are emptied; the dirty flags
\* keep whatever the previous use of the command buffer left in them.
AcquireCommandBufferUniforms ==
    /\ ucbState = "available"
    /\ ucbUses < MaxUses
    /\ ucbUses' = ucbUses + 1
    /\ ucbState' = "recording"
    /\ slotUniformBuffers' = [k \in UniformSlots |-> NULL]
    /\ currentGraphicsPipeline' = FALSE
    /\ rootCBV' = [k \in UniformSlots |-> <<NULL, 0>>]
    /\ lastPushed' = [k \in UniformSlots |-> 0]
    /\ UNCHANGED <<uniformBuffers, mapPointer, uniformMemory, uniformBufferCount,
                   uniformBufferPool, needUniformBufferBind, usedUniformBuffers, draws>>
    /\ UNCHANGED nonUniformVars

\* D3D12_Submit: the wrappers still sitting in vertex and fragment slots are
\* unmapped, then the command list is handed to the queue.
SubmitUnmapUniformBuffers ==
    /\ ucbState = "recording"
    /\ ucbState' = "submitted"
    /\ mapPointer' = [w \in UniformWrappers |->
                        IF \E k \in UniformSlots :
                              k[1] \in {"VERTEX", "FRAGMENT"} /\ slotUniformBuffers[k] = w
                        THEN FALSE ELSE mapPointer[w]]
    /\ UNCHANGED <<uniformBuffers, uniformMemory, uniformBufferCount, uniformBufferPool,
                   slotUniformBuffers, needUniformBufferBind, usedUniformBuffers,
                   currentGraphicsPipeline, rootCBV, ucbUses, draws, lastPushed>>
    /\ UNCHANGED nonUniformVars

\* D3D12_INTERNAL_CleanCommandBuffer: every used wrapper goes back to the pool.
CleanCommandBufferUniforms ==
    /\ ucbState = "submitted"
    /\ ucbState' = "available"
    /\ uniformBufferPool' = uniformBufferPool \o usedUniformBuffers
    /\ usedUniformBuffers' = <<>>
    /\ draws' = <<>>
    /\ UNCHANGED <<uniformBuffers, mapPointer, uniformMemory, uniformBufferCount,
                   slotUniformBuffers, needUniformBufferBind, currentGraphicsPipeline,
                   rootCBV, ucbUses, lastPushed>>
    /\ UNCHANGED nonUniformVars

InitUniform ==
    /\ uniformBuffers = [w \in UniformWrappers |->
                            [writeOffset |-> 0, drawOffset |-> 0, currentBlockSize |-> 0]]
    /\ mapPointer = [w \in UniformWrappers |-> FALSE]
    /\ uniformMemory = [w \in UniformWrappers |-> [b \in UniformBlocks |-> 0]]
    /\ uniformBufferCount = 0
    /\ uniformBufferPool = <<>>
    /\ slotUniformBuffers = [k \in UniformSlots |-> NULL]
    /\ needUniformBufferBind = [k \in UniformSlots |-> FALSE]
    /\ usedUniformBuffers = <<>>
    /\ currentGraphicsPipeline = FALSE
    /\ rootCBV = [k \in UniformSlots |-> <<NULL, 0>>]
    /\ ucbState = "available"
    /\ ucbUses = 0
    /\ draws = <<>>
    /\ lastPushed = [k \in UniformSlots |-> 0]

NextUniform ==
    \/ AcquireCommandBufferUniforms
    \/ \E st \in ShaderStages, i \in 0..(MAX_UNIFORM_BUFFERS_PER_STAGE - 1),
          d \in Data, len \in PushLengths : PushUniformData(st, i, d, len)
    \/ D3D12_BindGraphicsPipeline
    \/ D3D12_DrawPrimitives
    \/ SubmitUnmapUniformBuffers
    \/ CleanCommandBufferUniforms

(***************************************************************************)
(* Textures, buffers, cycling, barriers and passes                         *)
(*                                                                         *)
(* Command buffers record one at a time, so the order in which barriers    *)
(* are recorded is the order in which the queue executes them, and the     *)
(* state of a resource can follow a barrier as soon as it is recorded.     *)
(***************************************************************************)
\* Textures the device may create.
MaxTextures == 4
\* Buffers the device may create.
MaxBuffers == 2
\* Command buffers that use the resources.
NumResourceCommandBuffers == 2
\* Index of the last sub-resource of a texture.
LastSubresource == 1
\* Commands one command buffer records when the cycling of resources is explored.
MaxCycleCommands == 2
\* Commands one command buffer records when passes are explored.
MaxPassCommands == 3

TextureIds == 1..MaxTextures
BufferIds == 1..MaxBuffers
ResourceCommandBuffers == 1..NumResourceCommandBuffers
Subresources == 0..LastSubresource
TextureContainerIds == {"storage", "target", "swapchain"}
BufferContainerIds == {"buffer"}
\* The container field of a texture or buffer that does not exist yet.
NoContainer == "none"
\* The null sub-resource pointer.
NoSubresource == <<NULL, 0>>

\* header.info.usageFlags of the texture containers of the model.
TextureUsageFlags(c) ==
    CASE c = "storage" -> {"SAMPLER", "COMPUTE_STORAGE_READ"}
      [] c = "target" -> {"COMPUTE_STORAGE_READ", "COMPUTE_STORAGE_WRITE"}
      [] c = "swapchain" -> {"COLOR_TARGET", "SAMPLER"}

\* usageFlags of the buffer containers of the model.
BufferUsageFlags(c) == {"VERTEX", "COMPUTE_STORAGE_READ", "COMPUTE_STORAGE_WRITE"}

\* Containers that can all be cycled.
EveryContainerCycles(c) == TRUE

\* container->canBeCycled: TRUE from D3D12_CreateTexture, FALSE for the
\* containers D3D12_INTERNAL_InitializeSwapchainTexture fills in.
canBeCycled(c) == c # "swapchain"

\* Sub-resources an application addresses in a container's textures.
SubresourcesOf(c) == IF c = "storage" THEN Subresources ELSE {0}

D3D12_INTERNAL_DefaultTextureResourceState(usageFlags) ==
    IF "SAMPLER" \in usageFlags THEN "ALL_SHADER_RESOURCE"
    ELSE IF "GRAPHICS_STORAGE_READ" \in usageFlags THEN "ALL_SHADER_RESOURCE"
    ELSE IF "COLOR_TARGET" \in usageFlags THEN "RENDER_TARGET"
    ELSE IF "DEPTH_STENCIL_TARGET" \in usageFlags THEN "DEPTH_WRITE"
    ELSE IF "COMPUTE_STORAGE_READ" \in usageFlags THEN "NON_PIXEL_SHADER_RESOURCE"
    ELSE IF "COMPUTE_STORAGE_WRITE" \in usageFlags THEN "UNORDERED_ACCESS"
    ELSE "ALL_SHADER_RESOURCE"

D3D12_INTERNAL_DefaultBufferResourceState(usageFlags) ==
    IF "VERTEX" \in usageFlags THEN "VERTEX_AND_CONSTANT_BUFFER"
    ELSE IF "INDEX" \in usageFlags THEN "INDEX_BUFFER"
    ELSE IF "INDIRECT" \in usageFlags THEN "INDIRECT_ARGUMENT"
    ELSE IF "GRAPHICS_STORAGE_READ" \in usageFlags THEN "ALL_SHADER_RESOURCE"
    ELSE IF "COMPUTE_STORAGE_READ" \in usageFlags THEN "NON_PIXEL_SHADER_RESOURCE"
    ELSE IF "COMPUTE_STORAGE_WRITE" \in usageFlags THEN "UNORDERED_ACCESS"
    ELSE "VERTEX_AND_CONSTANT_BUFFER"

\* The state a resource is in after a transition barrier.  No barrier is
\* recorded when the two states are equal.  A barrier whose StateBefore is not
\* the state the resource is in is invalid: the device either performs it
\* (honoured) or drops it.
D3D12_INTERNAL_ResourceBarrier(actual, sourceState, destinationState, honoured) ==
    IF sourceState = destinationState THEN actual
    ELSE IF actual = sourceState \/ honoured THEN destinationState
    ELSE actual

\* The world the internal helpers transform: containers, resources, the acting
\* command buffer with the command being recorded counted, and ret, a helper's
\* result.
World(cb) ==
    [tc |-> textureContainers, tx |-> textures, bc |-> bufferContainers,
     bf |-> buffers, cb |-> [rcb[cb] EXCEPT !.commandCount = @ + 1],
     ret |-> NoSubresource]

TextureDefaultState(tx, t) ==
    D3D12_INTERNAL_DefaultTextureResourceState(TextureUsageFlags(tx[t].container))

BufferDefaultState(bf, b) ==
    D3D12_INTERNAL_DefaultBufferResourceState(BufferUsageFlags(bf[b].container))

D3D12_INTERNAL_TextureSubresourceBarrier(tx, sourceState, destinationState, sub, honoured) ==
    [tx EXCEPT ![sub[1]].subresources[sub[2]].state =
        D3D12_INTERNAL_ResourceBarrier(@, sourceState, destinationState, honoured)]

D3D12_INTERNAL_TextureSubresourceTransitionFromDefaultUsage(tx, destinationUsageMode, sub, honoured) ==
    D3D12_INTERNAL_TextureSubresourceBarrier(
        tx, TextureDefaultState(tx, sub[1]), destinationUsageMode, sub, honoured)

D3D12_INTERNAL_TextureSubresourceTransitionToDefaultUsage(tx, sourceUsageMode, sub, honoured) ==
    D3D12_INTERNAL_TextureSubresourceBarrier(
        tx, sourceUsageMode, TextureDefaultState(tx, sub[1]), sub, honoured)

D3D12_INTERNAL_BufferBarrier(bf, sourceState, destinationState, b, honoured) ==
    [bf EXCEPT ![b].state =
                  D3D12_INTERNAL_ResourceBarrier(
                      @, IF bf[b].transitioned THEN sourceState ELSE "COMMON",
                      destinationState, honoured),
               ![b].transitioned = TRUE]

D3D12_INTERNAL_BufferTransitionFromDefaultUsage(bf, destinationState, b, honoured) ==
    D3D12_INTERNAL_BufferBarrier(bf, BufferDefaultState(bf, b), destinationState, b, honoured)

D3D12_INTERNAL_BufferTransitionToDefaultUsage(bf, sourceState, b, honoured) ==
    D3D12_INTERNAL_BufferBarrier(bf, sourceState, BufferDefaultState(bf, b), b, honoured)

\* TRACK_RESOURCE: a resource joins the used list once and gains one reference.
D3D12_INTERNAL_TrackTextureSubresource(W, sub) ==
    IF sub \in W.cb.usedTextureSubresources THEN W
    ELSE [W EXCEPT !.cb.usedTextureSubresources = @ \cup {sub},
                   !.tx[sub[1]].subresources[sub[2]].referenceCount = @ + 1]

D3D12_INTERNAL_TrackBuffer(W, b) ==
    IF b \in W.cb.usedBuffers THEN W
    ELSE [W EXCEPT !.cb.usedBuffers = @ \cup {b},
                   !.bf[b].referenceCount = @ + 1]

RECURSIVE RefCountTotal(_, _, _)
\* The sum of the reference counts of sub-resources 0..j of texture t.
RefCountTotal(tx, t, j) ==
    IF j < 0 THEN 0
    ELSE tx[t].subresources[j].referenceCount + RefCountTotal(tx, t, j - 1)

\* Positions in the container of the textures no command buffer references.
IdleTextures(W, c) ==
    {i \in 1..Len(W.tc[c].textures) :
        RefCountTotal(W.tx, W.tc[c].textures[i], LastSubresource) = 0}

IdleBuffers(W, c) ==
    {i \in 1..Len(W.bc[c].buffers) : W.bf[W.bc[c].buffers[i]].referenceCount = 0}

SetMin(S) == CHOOSE x \in S : \A y \in S : x <= y

\* A cycle that leaves the active texture where it was.
CycleActiveTextureKeepsActive(W, c) == W

D3D12_INTERNAL_CycleActiveTexture(W, c) ==
    LET idle == IdleTextures(W, c)
        fresh == SetMin({t \in TextureIds : W.tx[t].container = NoContainer})
    IN  IF idle # {}
        THEN [W EXCEPT !.tc[c].activeTexture = W.tc[c].textures[SetMin(idle)]]
        ELSE [W EXCEPT !.tc[c].textures = Append(@, fresh),
                       !.tc[c].activeTexture = fresh,
                       !.tx[fresh] =
                           [container |-> c,
                            subresources |-> [s \in Subresources |->
                                [referenceCount |-> 0,
                                 state |-> D3D12_INTERNAL_DefaultTextureResourceState(
                                               TextureUsageFlags(c))]]]]

\* A cycle that takes the last buffer of the container when there is more
\* than one, whatever its reference count.
CycleActiveBufferTakesLast(W, c) ==
    LET fresh == SetMin({b \in BufferIds : W.bf[b].container = NoContainer})
    IN  IF Len(W.bc[c].buffers) > 1
        THEN [W EXCEPT !.bc[c].activeBuffer = W.bc[c].buffers[Len(W.bc[c].buffers)]]
        ELSE [W EXCEPT !.bc[c].buffers = Append(@, fresh),
                       !.bc[c].activeBuffer = fresh,
                       !.bf[fresh] = [container |-> c, referenceCount |-> 0,
                                      state |-> "COMMON", transitioned |-> FALSE]]

D3D12_INTERNAL_CycleActiveBuffer(W, c) ==
    LET idle == IdleBuffers(W, c)
        fresh == SetMin({b \in BufferIds : W.bf[b].container = NoContainer})
    IN  IF idle # {}
        THEN [W EXCEPT !.bc[c].activeBuffer = W.bc[c].buffers[SetMin(idle)]]
        ELSE [W EXCEPT !.bc[c].buffers = Append(@, fresh),
                       !.bc[c].activeBuffer = fresh,
                       !.bf[fresh] = [container |-> c, referenceCount |-> 0,
                                      state |-> "COMMON", transitioned |-> FALSE]]

\* ret is the sub-resource handed back to the caller.
D3D12_INTERNAL_PrepareTextureSubresourceForWrite(W, c, s, cycle, destinationUsageMode, honoured) ==
    LET W1 == IF /\ canBeCycled(c)
                 /\ cycle
                 /\ W.tx[W.tc[c].activeTexture].subresources[s].referenceCount > 0
              THEN D3D12_INTERNAL_CycleActiveTexture(W, c)
              ELSE W
        sub == <<W1.tc[c].activeTexture, s>>
    IN  [W1 EXCEPT !.tx = D3D12_INTERNAL_TextureSubresourceTransitionFromDefaultUsage(
                              W1.tx, destinationUsageMode, sub, honoured),
                   !.ret = sub]

\* ret is <<buffer, 0>>, the buffer handed back to the caller.
D3D12_INTERNAL_PrepareBufferForWrite(W, c, cycle, destinationState, honoured) ==
    LET W1 == IF cycle /\ W.bf[W.bc[c].activeBuffer].referenceCount > 0
              THEN D3D12_INTERNAL_CycleActiveBuffer(W, c)
              ELSE W
        b == W1.bc[c].activeBuffer
    IN  [W1 EXCEPT !.bf = D3D12_INTERNAL_BufferTransitionFromDefaultUsage(
                              W1.bf, destinationState, b, honoured),
                   !.ret = <<b, 0>>]

\* A cycling write finds a texture (a buffer) to switch to: an idle one, or one
\* the device may still create.
TextureCycleFeasible(c, s, cycle) ==
    \/ ~(canBeCycled(c) /\ cycle)
    \/ textures[textureContainers[c].activeTexture].subresources[s].referenceCount = 0
    \/ \E t \in TextureIds :
          textures[t].container = NoContainer
          \/ (textures[t].container = c /\ RefCountTotal(textures, t, LastSubresource) = 0)

BufferCycleFeasible(c, cycle) ==
    \/ ~cycle
    \/ \E b \in BufferIds :
          buffers[b].container = NoContainer
          \/ (buffers[b].container = c /\ buffers[b].referenceCount = 0)

\* The record of a Prepare...ForWrite call: its arguments, whether it switched
\* the active resource, and the reference count of what it returned.
PrepareRecord(kind, c, cycle, before, after, referenceCount) ==
    [kind |-> kind, cycle |-> cycle,
     canBeCycled |-> IF kind = "texture" THEN canBeCycled(c) ELSE TRUE,
     cycled |-> before # after, referenceCount |-> referenceCount]

\* The record of a handler that calls no Prepare...ForWrite.
NoPrepare ==
    [kind |-> "none", cycle |-> FALSE, canBeCycled |-> FALSE, cycled |-> FALSE,
     referenceCount |-> 0]

ResourceRecording(cb) == rcb[cb].state = "recording"

\* The variables of the world W, written back, with W.cb as command buffer cb.
CommitWorld(W, cb) ==
    /\ textureContainers' = W.tc
    /\ textures' = W.tx
    /\ bufferContainers' = W.bc
    /\ buffers' = W.bf
    /\ rcb' = [rcb EXCEPT ![cb] = W.cb]

\* temporaryBuffer: the data needs no temporary buffer, or
\* D3D12_INTERNAL_CreateBuffer creates it; FALSE when the creation fails.
D3D12_UploadToTextureVia(cb, c, s, cycle, temporaryBuffer, honoured) ==
    LET W1 == D3D12_INTERNAL_PrepareTextureSubresourceForWrite(
                  World(cb), c, s, cycle, "COPY_DEST", honoured)
        sub == W1.ret
        W2 == [W1 EXCEPT !.tx = D3D12_INTERNAL_TextureSubresourceTransitionToDefaultUsage(
                                    W1.tx, "COPY_DEST", sub, honoured)]
        W3 == D3D12_INTERNAL_TrackTextureSubresource(W2, sub)
    IN  /\ ResourceRecording(cb)
        /\ rcb[cb].pass = "none"
        /\ canBeCycled(c)
        /\ TextureCycleFeasible(c, s, cycle)
        /\ CommitWorld(IF temporaryBuffer THEN W3 ELSE W1, cb)
        /\ lastPrepare' = PrepareRecord("texture", c, cycle,
                              textureContainers[c].activeTexture, sub[1],
                              W1.tx[sub[1]].subresources[s].referenceCount)
        /\ UNCHANGED passTouched
        /\ UNCHANGED nonResourceVars

\* An upload whose data needs no temporary buffer, or gets it.
D3D12_UploadToTexture(cb, c, s, cycle, honoured) ==
    LET W1 == D3D12_INTERNAL_PrepareTextureSubresourceForWrite(
                  World(cb), c, s, cycle, "COPY_DEST", honoured)
        sub == W1.ret
        W2 == [W1 EXCEPT !.tx = D3D12_INTERNAL_TextureSubresourceTransitionToDefaultUsage(
                                    W1.tx, "COPY_DEST", sub, honoured)]
        W3 == D3D12_INTERNAL_TrackTextureSubresource(W2, sub)
    IN  /\ ResourceRecording(cb)
        /\ rcb[cb].pass = "none"
        /\ canBeCycled(c)
        /\ TextureCycleFeasible(c, s, cycle)
        /\ CommitWorld(W3, cb)
        /\ lastPrepare' = PrepareRecord("texture", c, cycle,
                              textureContainers[c].activeTexture, sub[1],
                              W1.tx[sub[1]].subresources[s].referenceCount)
        /\ UNCHANGED passTouched
        /\ UNCHANGED nonResourceVars

D3D12_UploadToBuffer(cb, c, cycle, honoured) ==
    LET W1 == D3D12_INTERNAL_PrepareBufferForWrite(
                  World(cb), c, cycle, "COPY_DEST", honoured)
        b == W1.ret[1]
        W2 == [W1 EXCEPT !.bf = D3D12_INTERNAL_BufferTransitionToDefaultUsage(
                                    W1.bf, "COPY_DEST", b, honoured)]
        W3 == D3D12_INTERNAL_TrackBuffer(W2, b)
    IN  /\ ResourceRecording(cb)
        /\ rcb[cb].pass = "none"
        /\ BufferCycleFeasible(c, cycle)
        /\ CommitWorld(W3, cb)
        /\ lastPrepare' = PrepareRecord("buffer", c, cycle,
                              bufferContainers[c].activeBuffer, b,
                              W1.bf[b].referenceCount)
        /\ UNCHANGED passTouched
        /\ UNCHANGED nonResourceVars

\* One colour attachment, no depth-stencil attachment.
D3D12_BeginRenderPass(cb, c, s, attachmentCycle, loadOp, honoured) ==
    LET cycle == IF loadOp = "LOAD" THEN FALSE ELSE attachmentCycle
        W1 == D3D12_INTERNAL_PrepareTextureSubresourceForWrite(
                  World(cb), c, s, cycle, "RENDER_TARGET", honoured)
        sub == W1.ret
        W2 == [W1 EXCEPT !.cb.colorAttachmentTextureSubresources = sub,
                         !.cb.pass = "render"]
        W3 == D3D12_INTERNAL_TrackTextureSubresource(W2, sub)
    IN  /\ ResourceRecording(cb)
        /\ rcb[cb].pass = "none"
        /\ "COLOR_TARGET" \in TextureUsageFlags(c)
        /\ TextureCycleFeasible(c, s, cycle)
        /\ CommitWorld(W3, cb)
        /\ lastPrepare' = PrepareRecord("texture", c, cycle,
                              textureContainers[c].activeTexture, sub[1],
                              W1.tx[sub[1]].subresources[s].referenceCount)
        /\ passTouched' = [textures |-> {sub}, buffers |-> {}]
        /\ UNCHANGED nonResourceVars

D3D12_EndRenderPass(cb, honoured) ==
    /\ ResourceRecording(cb)
    /\ rcb[cb].pass = "render"
    /\ textures' = D3D12_INTERNAL_TextureSubresourceTransitionToDefaultUsage(
                       textures, "RENDER_TARGET",
                       rcb[cb].colorAttachmentTextureSubresources, honoured)
    /\ rcb' = [rcb EXCEPT ![cb].colorAttachmentTextureSubresources = NoSubresource,
                          ![cb].pass = "none"]
    /\ lastPrepare' = NoPrepare
    /\ UNCHANGED <<textureContainers, bufferContainers, buffers, passTouched>>
    /\ UNCHANGED nonResourceVars

\* storageTextureBindings and storageBufferBindings are binding arrays of at
\* most one element: [texture, layer, cycle] and [buffer, cycle].
D3D12_BeginComputePass(cb, storageTextureBindings, storageBufferBindings, honoured) ==
    LET withTexture == Len(storageTextureBindings) > 0
        withBuffer == Len(storageBufferBindings) > 0
        tb == storageTextureBindings[1]
        bb == storageBufferBindings[1]
        W0 == [World(cb) EXCEPT !.cb.pass = "compute"]
        W1 == IF withTexture
              THEN D3D12_INTERNAL_PrepareTextureSubresourceForWrite(
                       W0, tb.texture, tb.layer, tb.cycle, "UNORDERED_ACCESS", honoured)
              ELSE W0
        W2 == IF withTexture
              THEN D3D12_INTERNAL_TrackTextureSubresource(
                       [W1 EXCEPT !.cb.computeReadWriteStorageTextures = W1.ret], W1.ret)
              ELSE W1
        W3 == IF withBuffer
              THEN D3D12_INTERNAL_PrepareBufferForWrite(
                       W2, bb.buffer, bb.cycle, "UNORDERED_ACCESS", honoured)
              ELSE W2
        W4 == IF withBuffer
              THEN D3D12_INTERNAL_TrackBuffer(
                       [W3 EXCEPT !.cb.computeReadWriteStorageBuffers = W3.ret[1]], W3.ret[1])
              ELSE W3
    IN  /\ ResourceRecording(cb)
        /\ rcb[cb].pass = "none"
        /\ withTexture => /\ "COMPUTE_STORAGE_WRITE" \in TextureUsageFlags(tb.texture)
                          /\ TextureCycleFeasible(tb.texture, tb.layer, tb.cycle)
        /\ withBuffer => /\ "COMPUTE_STORAGE_WRITE" \in BufferUsageFlags(bb.buffer)
                         /\ BufferCycleFeasible(bb.buffer, bb.cycle)
        /\ CommitWorld(W4, cb)
        /\ lastPrepare' =
              IF withBuffer
              THEN PrepareRecord("buffer", bb.buffer, bb.cycle,
                       bufferContainers[bb.buffer].activeBuffer, W3.ret[1],
                       W3.bf[W3.ret[1]].referenceCount)
              ELSE IF withTexture
              THEN PrepareRecord("texture", tb.texture, tb.cycle,
                       textureContainers[tb.texture].activeTexture, W1.ret[1],
                       W1.tx[W1.ret[1]].subresources[tb.layer].referenceCount)
              ELSE NoPrepare
        /\ passTouched' = [textures |-> IF withTexture THEN {W1.ret} ELSE {},
                           buffers |-> IF withBuffer THEN {W3.ret[1]} ELSE {}]
        /\ UNCHANGED nonResourceVars

\* firstSlot = 0, bindingCount = 1.
D3D12_BindComputeStorageTextures(cb, c, s, honoured) ==
    LET old == rcb[cb].computeReadOnlyStorageTextures
        tx1 == IF old # NoSubresource
               THEN D3D12_INTERNAL_TextureSubresourceTransitionFromDefaultUsage(
                        textures, "NON_PIXEL_SHADER_RESOURCE", old, honoured)
               ELSE textures
        sub == <<textureContainers[c].activeTexture, s>>
        W1 == [World(cb) EXCEPT
                  !.tx = D3D12_INTERNAL_TextureSubresourceTransitionFromDefaultUsage(
                             tx1, "NON_PIXEL_SHADER_RESOURCE", sub, honoured),
                  !.cb.computeReadOnlyStorageTextures = sub]
        W2 == D3D12_INTERNAL_TrackTextureSubresource(W1, sub)
    IN  /\ ResourceRecording(cb)
        /\ rcb[cb].pass = "compute"
        /\ "COMPUTE_STORAGE_READ" \in TextureUsageFlags(c)
        /\ sub # rcb[cb].computeReadWriteStorageTextures
        /\ CommitWorld(W2, cb)
        /\ passTouched' = [passTouched EXCEPT !.textures = @ \cup {sub}]
        /\ lastPrepare' = NoPrepare
        /\ UNCHANGED nonResourceVars

\* firstSlot = 0, bindingCount = 1.
D3D12_BindComputeStorageBuffers(cb, c, honoured) ==
    LET old == rcb[cb].computeReadOnlyStorageBuffers
        bf1 == IF old # NULL
               THEN D3D12_INTERNAL_BufferTransitionToDefaultUsage(
                        buffers, "NON_PIXEL_SHADER_RESOURCE", old, honoured)
               ELSE buffers
        b == bufferContainers[c].activeBuffer
        W1 == [World(cb) EXCEPT
                  !.bf = D3D12_INTERNAL_BufferTransitionFromDefaultUsage(
                             bf1, "NON_PIXEL_SHADER_RESOURCE", b, honoured),
                  !.cb.computeReadOnlyStorageBuffers = b]
        W2 == D3D12_INTERNAL_TrackBuffer(W1, b)
    IN  /\ ResourceRecording(cb)
        /\ rcb[cb].pass = "compute"
        /\ "COMPUTE_STORAGE_READ" \in BufferUsageFlags(c)
        /\ b # rcb[cb].computeReadWriteStorageBuffers
        /\ CommitWorld(W2, cb)
        /\ passTouched' = [passTouched EXCEPT !.buffers = @ \cup {b}]
        /\ lastPrepare' = NoPrepare
        /\ UNCHANGED nonResourceVars

D3D12_EndComputePass(cb, honoured) ==
    LET r == rcb[cb]
        tx1 == IF r.computeReadWriteStorageTextures # NoSubresource
               THEN D3D12_INTERNAL_TextureSubresourceTransitionToDefaultUsage(
                        textures, "UNORDERED_ACCESS",
                        r.computeReadWriteStorageTextures, honoured)
               ELSE textures
        bf1 == IF r.computeReadWriteStorageBuffers # NULL
               THEN D3D12_INTERNAL_BufferTransitionToDefaultUsage(
                        buffers, "UNORDERED_ACCESS",
                        r.computeReadWriteStorageBuffers, honoured)
               ELSE buffers
        tx2 == IF r.computeReadOnlyStorageTextures # NoSubresource
               THEN D3D12_INTERNAL_TextureSubresourceTransitionToDefaultUsage(
                        tx1, "NON_PIXEL_SHADER_RESOURCE",
                        r.computeReadOnlyStorageTextures, honoured)
               ELSE tx1
        bf2 == IF r.computeReadOnlyStorageBuffers # NULL
               THEN D3D12_INTERNAL_BufferTransitionToDefaultUsage(
                        bf1, "NON_PIXEL_SHADER_RESOURCE",
                        r.computeReadOnlyStorageBuffers, honoured)
               ELSE bf1
    IN  /\ ResourceRecording(cb)
        /\ r.pass = "compute"
        /\ textures' = tx2
        /\ buffers' = bf2
        /\ rcb' = [rcb EXCEPT ![cb].computeReadWriteStorageTextures = NoSubresource,
                              ![cb].computeReadWriteStorageBuffers = NULL,
                              ![cb].computeReadOnlyStorageTextures = NoSubresource,
                              ![cb].computeReadOnlyStorageBuffers = NULL,
                              ![cb].pass = "none"]
        /\ lastPrepare' = NoPrepare
        /\ UNCHANGED <<textureContainers, bufferContainers, passTouched>>
        /\ UNCHANGED nonResourceVars

EmptyResourceCommandBuffer(state) ==
    [state |-> state, commandCount |-> 0,
     usedTextureSubresources |-> {}, usedBuffers |-> {},
     pass |-> "none", colorAttachmentTextureSubresources |-> NoSubresource,
     computeReadWriteStorageTextures |-> NoSubresource,
     computeReadWriteStorageBuffers |-> NULL,
     computeReadOnlyStorageTextures |-> NoSubresource,
     computeReadOnlyStorageBuffers |-> NULL,
     presentDataCount |-> 0]

\* D3D12_AcquireCommandBuffer: the pass bindings are zeroed.
AcquireCommandBufferResources(cb) ==
    /\ rcb[cb].state = "available"
    /\ \A other \in ResourceCommandBuffers : rcb[other].state # "recording"
    /\ rcb' = [rcb EXCEPT ![cb] = EmptyResourceCommandBuffer("recording")]
    /\ lastPrepare' = NoPrepare
    /\ UNCHANGED <<textureContainers, textures, bufferContainers, buffers, passTouched>>
    /\ UNCHANGED nonResourceVars

\* The window's back buffer, the one sub-resource of the swapchain container's
\* texture.
BackBuffer(tc) == <<tc["swapchain"].activeTexture, 0>>

\* D3D12_AcquireSwapchainTexture as the resources see it: the window joins the
\* command buffer's present list.
AcquireSwapchainTextureResources(cb) ==
    /\ ResourceRecording(cb)
    /\ rcb[cb].presentDataCount = 0
    /\ rcb' = [rcb EXCEPT ![cb].presentDataCount = 1]
    /\ lastPrepare' = NoPrepare
    /\ UNCHANGED <<textureContainers, textures, bufferContainers, buffers, passTouched>>
    /\ UNCHANGED nonResourceVars

\* D3D12_Submit: the back buffers of the present list are transitioned to the
\* present state, and the command list is closed and handed to the queue.
SubmitResources(cb) ==
    /\ ResourceRecording(cb)
    /\ rcb[cb].pass = "none"
    /\ \E honoured \in BOOLEAN :
          textures' =
              IF rcb[cb].presentDataCount > 0
              THEN D3D12_INTERNAL_TextureSubresourceTransitionFromDefaultUsage(
                       textures, "PRESENT", BackBuffer(textureContainers), honoured)
              ELSE textures
    /\ rcb' = [rcb EXCEPT ![cb].state = "submitted"]
    /\ lastPrepare' = NoPrepare
    /\ UNCHANGED <<textureContainers, bufferContainers, buffers, passTouched>>
    /\ UNCHANGED nonResourceVars

\* D3D12_INTERNAL_CleanCommandBuffer: every tracked resource loses the
\* reference the command buffer held.
CleanCommandBufferResources(cb) ==
    /\ rcb[cb].state = "submitted"
    /\ textures' = [t \in TextureIds |->
                      [textures[t] EXCEPT !.subresources =
                          [s \in Subresources |->
                              IF <<t, s>> \in rcb[cb].usedTextureSubresources
                              THEN [@[s] EXCEPT !.referenceCount = @ - 1]
                              ELSE @[s]]]]
    /\ buffers' = [b \in BufferIds |->
                      IF b \in rcb[cb].usedBuffers
                      THEN [buffers[b] EXCEPT !.referenceCount = @ - 1]
                      ELSE buffers[b]]
    /\ rcb' = [rcb EXCEPT ![cb] = EmptyResourceCommandBuffer("available")]
    /\ lastPrepare' = NoPrepare
    /\ UNCHANGED <<textureContainers, bufferContainers, passTouched>>
    /\ UNCHANGED nonResourceVars

\* The texture each container is created with.
InitialTexture(c) ==
    CASE c = "storage" -> 1 [] c = "target" -> 2 [] c = "swapchain" -> 3

InitResources ==
    /\ textureContainers = [c \in TextureContainerIds |->
                              [activeTexture |-> InitialTexture(c),
                               textures |-> <<InitialTexture(c)>>]]
    /\ textures = [t \in TextureIds |->
                     LET owner == {c \in TextureContainerIds : InitialTexture(c) = t}
                     IN  IF owner = {}
                         THEN [container |-> NoContainer,
                               subresources |-> [s \in Subresources |->
                                   [referenceCount |-> 0, state |-> "COMMON"]]]
                         ELSE LET c == CHOOSE x \in owner : TRUE
                              IN  [container |-> c,
                                   subresources |-> [s \in Subresources |->
                                       [referenceCount |-> 0,
                                        state |-> D3D12_INTERNAL_DefaultTextureResourceState(
                                                      TextureUsageFlags(c))]]]]
    /\ bufferContainers = [c \in BufferContainerIds |->
                             [activeBuffer |-> 1, buffers |-> <<1>>]]
    /\ buffers = [b \in BufferIds |->
                    [container |-> IF b = 1 THEN "buffer" ELSE NoContainer,
                     referenceCount |-> 0, state |-> "COMMON", transitioned |-> FALSE]]
    /\ rcb = [cb \in ResourceCommandBuffers |-> EmptyResourceCommandBuffer("available")]
    /\ lastPrepare = NoPrepare
    /\ passTouched = [textures |-> {}, buffers |-> {}]

(***************************************************************************)
(* Deferred destruction                                                    *)
(*                                                                         *)
(* The application releases containers; their buffers and textures wait on *)
(* the renderer's destroy lists until the sweep that ends Submit and Wait   *)
(* finds them unreferenced.                                                *)
(***************************************************************************)
\* The resources, command buffers and destroy lists as one value; destroyed
\* collects what D3D12_INTERNAL_PerformPendingDestroys destroys.
DestroyWorld ==
    [tx |-> textures, bf |-> buffers, rcb |-> rcb,
     buffersToDestroy |-> buffersToDestroy,
     texturesToDestroy |-> texturesToDestroy,
     indirectBuffers |-> indirectBuffers,
     destroyed |-> {}]

\* D3D12_INTERNAL_CleanCommandBuffer on the world D.
CleanCommandBufferIn(D, cb) ==
    [D EXCEPT
        !.tx = [t \in TextureIds |->
                   [D.tx[t] EXCEPT !.subresources =
                       [s \in Subresources |->
                           IF <<t, s>> \in D.rcb[cb].usedTextureSubresources
                           THEN [@[s] EXCEPT !.referenceCount = @ - 1]
                           ELSE @[s]]]],
        !.bf = [b \in BufferIds |->
                   IF b \in D.rcb[cb].usedBuffers
                   THEN [D.bf[b] EXCEPT !.referenceCount = @ - 1]
                   ELSE D.bf[b]],
        !.rcb[cb] = EmptyResourceCommandBuffer("available"),
        !.indirectBuffers[cb] = {}]

RECURSIVE CleanSignalled(_, _)
\* The sweep over the submitted command buffers: those whose fence the GPU
\* has signalled are cleaned.
CleanSignalled(D, signalled) ==
    IF signalled = {} THEN D
    ELSE LET cb == SetMin(signalled)
         IN  CleanSignalled(CleanCommandBufferIn(D, cb), signalled \ {cb})

\* A buffer that is always taken for destroyable.
BufferAlwaysDestroyable(bf, b) == TRUE

\* The tests D3D12_INTERNAL_PerformPendingDestroys makes before it destroys.
BufferDestroyable(bf, b) == bf[b].referenceCount = 0

TextureDestroyable(tx, t) == RefCountTotal(tx, t, LastSubresource) = 0

RECURSIVE DestroyBuffers(_, _)
\* The loop over buffersToDestroy, from its last entry to its first; a
\* destroyed entry is overwritten by the last one.
DestroyBuffers(D, i) ==
    IF i < 1 THEN D
    ELSE LET b == D.buffersToDestroy[i]
             count == Len(D.buffersToDestroy)
         IN  DestroyBuffers(
                 IF BufferDestroyable(D.bf, b)
                 THEN [D EXCEPT
                          !.bf[b] = [container |-> NoContainer, referenceCount |-> 0,
                                     state |-> "COMMON", transitioned |-> FALSE],
                          !.buffersToDestroy =
                              SubSeq([D.buffersToDestroy EXCEPT
                                         ![i] = D.buffersToDestroy[count]],
                                     1, count - 1),
                          !.destroyed = @ \cup
                              {[kind |-> "buffer", resource |-> b,
                                referenceCounts |-> {D.bf[b].referenceCount}]}]
                 ELSE D,
                 i - 1)

RECURSIVE DestroyTextures(_, _)
DestroyTextures(D, i) ==
    IF i < 1 THEN D
    ELSE LET t == D.texturesToDestroy[i]
             count == Len(D.texturesToDestroy)
         IN  DestroyTextures(
                 IF TextureDestroyable(D.tx, t)
                 THEN [D EXCEPT
                          !.tx[t] = [container |-> NoContainer,
                                     subresources |-> [s \in Subresources |->
                                         [referenceCount |-> 0, state |-> "COMMON"]]],
                          !.texturesToDestroy =
                              SubSeq([D.texturesToDestroy EXCEPT
                                         ![i] = D.texturesToDestroy[count]],
                                     1, count - 1),
                          !.destroyed = @ \cup
                              {[kind |-> "texture", resource |-> t,
                                referenceCounts |->
                                    {D.tx[t].subresources[s].referenceCount :
                                        s \in Subresources}]}]
                 ELSE D,
                 i - 1)

D3D12_INTERNAL_PerformPendingDestroys(D) ==
    LET D1 == DestroyBuffers(D, Len(D.buffersToDestroy))
    IN  DestroyTextures(D1, Len(D1.texturesToDestroy))

CommitDestroyWorld(D) ==
    /\ textures' = D.tx
    /\ buffers' = D.bf
    /\ rcb' = D.rcb
    /\ buffersToDestroy' = D.buffersToDestroy
    /\ texturesToDestroy' = D.texturesToDestroy
    /\ indirectBuffers' = D.indirectBuffers
    /\ lastPrepare' = NoPrepare
    /\ UNCHANGED passTouched
    /\ UNCHANGED nonDestroyVars

\* The container is a client handle and is freed at once.
FreedContainer == [activeBuffer |-> NULL, buffers |-> <<>>]

BufferContainerAlive(c) == bufferContainers[c].activeBuffer # NULL
TextureContainerAlive(c) == textureContainers[c].activeTexture # NULL

\* D3D12_ReleaseBuffer: every buffer of the container goes on the destroy list.
D3D12_ReleaseBuffer(c) ==
    /\ BufferContainerAlive(c)
    /\ buffersToDestroy' = buffersToDestroy \o bufferContainers[c].buffers
    /\ bufferContainers' = [bufferContainers EXCEPT ![c] = FreedContainer]
    /\ lastPrepare' = NoPrepare
    /\ UNCHANGED <<textureContainers, textures, buffers, rcb, passTouched,
                   texturesToDestroy, lastDestroyed, indirectBuffers>>
    /\ UNCHANGED nonDestroyVars

\* D3D12_ReleaseTexture: every texture of the container goes on the destroy
\* list.
D3D12_ReleaseTexture(c) ==
    /\ TextureContainerAlive(c)
    /\ texturesToDestroy' = texturesToDestroy \o textureContainers[c].textures
    /\ textureContainers' =
          [textureContainers EXCEPT ![c] = [activeTexture |-> NULL, textures |-> <<>>]]
    /\ lastPrepare' = NoPrepare
    /\ UNCHANGED <<bufferContainers, textures, buffers, rcb, passTouched,
                   buffersToDestroy, lastDestroyed, indirectBuffers>>
    /\ UNCHANGED nonDestroyVars

\* D3D12_DrawPrimitivesIndirect and D3D12_DrawIndexedPrimitivesIndirect: the
\* recorded ExecuteIndirect reads the container's active buffer.
D3D12_DrawPrimitivesIndirect(cb, c) ==
    /\ ResourceRecording(cb)
    /\ rcb[cb].pass = "render"
    /\ BufferContainerAlive(c)
    /\ indirectBuffers' = [indirectBuffers EXCEPT
                              ![cb] = @ \cup {bufferContainers[c].activeBuffer}]
    /\ rcb' = [rcb EXCEPT ![cb].commandCount = @ + 1]
    /\ lastPrepare' = NoPrepare
    /\ UNCHANGED <<textureContainers, textures, bufferContainers, buffers,
                   passTouched, buffersToDestroy, texturesToDestroy, lastDestroyed>>
    /\ UNCHANGED nonDestroyVars

\* D3D12_Submit as the resources see it: the command buffer is submitted, the
\* submitted command buffers whose fence is signalled are cleaned, and the
\* pending destroys are performed.
D3D12_SubmitResources(cb, signalled) ==
    /\ ResourceRecording(cb)
    /\ rcb[cb].pass = "none"
    /\ signalled \subseteq
          {x \in ResourceCommandBuffers : rcb[x].state = "submitted"} \cup {cb}
    /\ LET D0 == [DestroyWorld EXCEPT !.rcb[cb].state = "submitted"]
           D1 == D3D12_INTERNAL_PerformPendingDestroys(CleanSignalled(D0, signalled))
       IN  /\ CommitDestroyWorld(D1)
           /\ lastDestroyed' = D1.destroyed
    /\ UNCHANGED <<textureContainers, bufferContainers>>

\* D3D12_Wait as the resources see it: every submitted command buffer is
\* cleaned, and the pending destroys are performed.
D3D12_WaitResources ==
    /\ \A cb \in ResourceCommandBuffers : ~ResourceRecording(cb)
    /\ LET submitted == {x \in ResourceCommandBuffers : rcb[x].state = "submitted"}
           D1 == D3D12_INTERNAL_PerformPendingDestroys(
                     CleanSignalled(DestroyWorld, submitted))
       IN  /\ CommitDestroyWorld(D1)
           /\ lastDestroyed' = D1.destroyed
    /\ UNCHANGED <<textureContainers, bufferContainers>>

InitDestroy ==
    /\ buffersToDestroy = <<>>
    /\ texturesToDestroy = <<>>
    /\ lastDestroyed = {}
    /\ indirectBuffers = [cb \in ResourceCommandBuffers |-> {}]

LoadOps == {"LOAD", "CLEAR"}
\* The containers an application uploads to, and the ones it renders to.
UploadTargets == {"storage"}
RenderTargets == {c \in TextureContainerIds : "COLOR_TARGET" \in TextureUsageFlags(c)}

NextCycle ==
    \/ \E cb \in ResourceCommandBuffers : AcquireCommandBufferResources(cb)
    \/ \E cb \in ResourceCommandBuffers, c \in UploadTargets, cycle \in BOOLEAN,
          honoured \in BOOLEAN :
          \E s \in SubresourcesOf(c) :
              /\ rcb[cb].commandCount < MaxCycleCommands
              /\ D3D12_UploadToTexture(cb, c, s, cycle, honoured)
    \/ \E cb \in ResourceCommandBuffers, c \in BufferContainerIds, cycle \in BOOLEAN,
          honoured \in BOOLEAN :
              /\ rcb[cb].commandCount < MaxCycleCommands
              /\ D3D12_UploadToBuffer(cb, c, cycle, honoured)
    \/ \E cb \in ResourceCommandBuffers, c \in RenderTargets, cycle \in BOOLEAN,
          loadOp \in LoadOps, honoured \in BOOLEAN :
          \E s \in SubresourcesOf(c) :
              /\ rcb[cb].commandCount < MaxCycleCommands
              /\ D3D12_BeginRenderPass(cb, c, s, cycle, loadOp, honoured)
    \/ \E cb \in ResourceCommandBuffers, honoured \in BOOLEAN :
          D3D12_EndRenderPass(cb, honoured)
    \/ \E cb \in ResourceCommandBuffers : SubmitResources(cb)
    \/ \E cb \in ResourceCommandBuffers : CleanCommandBufferResources(cb)

\* The binding arrays an application hands to D3D12_BeginComputePass.
StorageTextureBindings ==
    {<<>>} \cup {<<[texture |-> c, layer |-> s, cycle |-> cycle]>> :
                    c \in {x \in TextureContainerIds :
                              "COMPUTE_STORAGE_WRITE" \in TextureUsageFlags(x)},
                    s \in {0}, cycle \in BOOLEAN}
StorageBufferBindings ==
    {<<>>} \cup {<<[buffer |-> c, cycle |-> cycle]>> :
                    c \in BufferContainerIds, cycle \in BOOLEAN}

\* The passes are recorded on one command buffer.
PassCommandBuffer == SetMin(ResourceCommandBuffers)

NextPass ==
    \/ AcquireCommandBufferResources(PassCommandBuffer)
    \/ \E tbs \in StorageTextureBindings, bbs \in StorageBufferBindings,
          honoured \in BOOLEAN :
          /\ rcb[PassCommandBuffer].commandCount < MaxPassCommands
          /\ D3D12_BeginComputePass(PassCommandBuffer, tbs, bbs, honoured)
    \/ \E c \in TextureContainerIds, honoured \in BOOLEAN :
          \E s \in SubresourcesOf(c) :
              /\ rcb[PassCommandBuffer].commandCount < MaxPassCommands
              /\ D3D12_BindComputeStorageTextures(PassCommandBuffer, c, s, honoured)
    \/ \E c \in BufferContainerIds, honoured \in BOOLEAN :
          /\ rcb[PassCommandBuffer].commandCount < MaxPassCommands
          /\ D3D12_BindComputeStorageBuffers(PassCommandBuffer, c, honoured)
    \/ \E c \in RenderTargets, cycle \in BOOLEAN, loadOp \in LoadOps,
          honoured \in BOOLEAN :
          /\ rcb[PassCommandBuffer].commandCount < MaxPassCommands
          /\ D3D12_BeginRenderPass(PassCommandBuffer, c, 0, cycle, loadOp, honoured)
    \/ \E honoured \in BOOLEAN : D3D12_EndRenderPass(PassCommandBuffer, honoured)
    \/ \E honoured \in BOOLEAN : D3D12_EndComputePass(PassCommandBuffer, honoured)
    \/ SubmitResources(PassCommandBuffer)
    \/ CleanCommandBufferResources(PassCommandBuffer)

\* Commands one command buffer records when frames are presented.
MaxFrameCommands == 2

\* An application that renders to the window's back buffer and presents it,
\* frame after frame.
NextFrame ==
    \/ \E cb \in ResourceCommandBuffers : AcquireCommandBufferResources(cb)
    \/ \E cb \in ResourceCommandBuffers : AcquireSwapchainTextureResources(cb)
    \/ \E cb \in ResourceCommandBuffers, loadOp \in LoadOps, honoured \in BOOLEAN :
          /\ rcb[cb].commandCount < MaxFrameCommands
          /\ rcb[cb].presentDataCount > 0
          /\ D3D12_BeginRenderPass(cb, "swapchain", 0, FALSE, loadOp, honoured)
    \/ \E cb \in ResourceCommandBuffers, honoured \in BOOLEAN :
          D3D12_EndRenderPass(cb, honoured)
    \/ \E cb \in ResourceCommandBuffers : SubmitResources(cb)
    \/ \E cb \in ResourceCommandBuffers : CleanCommandBufferResources(cb)

\* Commands one command buffer records when destruction is explored.
MaxDestroyCommands == 2

\* An application that uses resources, releases them and submits.
NextDestroy ==
    \/ \E cb \in ResourceCommandBuffers : AcquireCommandBufferResources(cb)
    \/ \E cb \in ResourceCommandBuffers, c \in UploadTargets, cycle \in BOOLEAN :
          /\ rcb[cb].commandCount < MaxDestroyCommands
          /\ TextureContainerAlive(c)
          /\ D3D12_UploadToTexture(cb, c, 0, cycle, TRUE)
    \/ \E cb \in ResourceCommandBuffers, c \in BufferContainerIds, cycle \in BOOLEAN :
          /\ rcb[cb].commandCount < MaxDestroyCommands
          /\ BufferContainerAlive(c)
          /\ D3D12_UploadToBuffer(cb, c, cycle, TRUE)
    \/ \E cb \in ResourceCommandBuffers, c \in RenderTargets :
          /\ rcb[cb].commandCount < MaxDestroyCommands
          /\ D3D12_BeginRenderPass(cb, c, 0, FALSE, "LOAD", TRUE)
    \/ \E cb \in ResourceCommandBuffers, c \in BufferContainerIds :
          /\ rcb[cb].commandCount < MaxDestroyCommands + 1
          /\ D3D12_DrawPrimitivesIndirect(cb, c)
    \/ \E cb \in ResourceCommandBuffers : D3D12_EndRenderPass(cb, TRUE)
    \/ \E c \in BufferContainerIds : D3D12_ReleaseBuffer(c)
    \/ \E c \in UploadTargets : D3D12_ReleaseTexture(c)
    \/ \E cb \in ResourceCommandBuffers :
          \E signalled \in SUBSET ResourceCommandBuffers :
              D3D12_SubmitResources(cb, signalled)
    \/ D3D12_WaitResources

(***************************************************************************)
(* Staging (CPU) descriptor heap                                           *)
(***************************************************************************)
\* heap->maxDescriptors of the staging heap (scaled down).
MaxStagingDescriptors == 3
\* D3D12CPUDescriptor structures the device's objects own.
NumCpuDescriptors == 4
\* 0xFFFFFFFF, written as the same 32-bit pattern read as a signed integer.
SDL_MAX_UINT32 == -1

CpuDescriptorIds == 1..NumCpuDescriptors

\* cpuDescriptor->heap is either NULL or the staging heap.
StagingHeap == 1

D3D12_INTERNAL_AssignCpuDescriptorHandle(d) ==
    LET heap == stagingDescriptorHeap
        inactiveDescriptorCount == Len(heap.inactiveDescriptorIndices)
    IN  /\ cpuDescriptors[d].heap = NULL
        /\ IF inactiveDescriptorCount > 0
           THEN /\ stagingDescriptorHeap' =
                       [heap EXCEPT !.inactiveDescriptorIndices =
                           SubSeq(@, 1, inactiveDescriptorCount - 1)]
                /\ cpuDescriptors' =
                       [cpuDescriptors EXCEPT ![d] =
                           [heap |-> StagingHeap,
                            cpuHandleIndex |->
                                heap.inactiveDescriptorIndices[inactiveDescriptorCount]]]
           ELSE IF heap.currentDescriptorIndex < MaxStagingDescriptors
           THEN /\ stagingDescriptorHeap' =
                       [heap EXCEPT !.currentDescriptorIndex = @ + 1]
                /\ cpuDescriptors' =
                       [cpuDescriptors EXCEPT ![d] =
                           [heap |-> StagingHeap,
                            cpuHandleIndex |-> heap.currentDescriptorIndex]]
           ELSE /\ UNCHANGED stagingDescriptorHeap
                /\ cpuDescriptors' =
                       [cpuDescriptors EXCEPT ![d] =
                           [heap |-> StagingHeap, cpuHandleIndex |-> SDL_MAX_UINT32]]
        /\ UNCHANGED nonHeapVars

D3D12_INTERNAL_ReleaseCpuDescriptorHandle(d) ==
    /\ stagingDescriptorHeap' =
          IF cpuDescriptors[d].heap # NULL
          THEN [stagingDescriptorHeap EXCEPT !.inactiveDescriptorIndices =
                   Append(@, cpuDescriptors[d].cpuHandleIndex)]
          ELSE stagingDescriptorHeap
    /\ cpuDescriptors' = [cpuDescriptors EXCEPT ![d] =
                             [heap |-> NULL, cpuHandleIndex |-> SDL_MAX_UINT32]]
    /\ UNCHANGED nonHeapVars

InitHeap ==
    /\ stagingDescriptorHeap =
          [currentDescriptorIndex |-> 0, inactiveDescriptorIndices |-> <<>>]
    /\ cpuDescriptors = [d \in CpuDescriptorIds |->
                            [heap |-> NULL, cpuHandleIndex |-> SDL_MAX_UINT32]]

NextHeap ==
    \/ \E d \in CpuDescriptorIds : D3D12_INTERNAL_AssignCpuDescriptorHandle(d)
    \/ \E d \in CpuDescriptorIds : D3D12_INTERNAL_ReleaseCpuDescriptorHandle(d)

(***************************************************************************)
(* Submission, fences and frame pacing                                     *)
(*                                                                         *)
(* The application calls the API; the GPU consumes the command queue on    *)
(* its own.  A call that blocks (Wait, WaitForFences,                      *)
(* AcquireSwapchainTexture in VSYNC mode) is split where it blocks: the    *)
(* thread variable holds the call it is in and what it waits for.          *)
(***************************************************************************)
\* Command buffers the device may allocate.
NumCommandBuffers == 3
\* Fences the device may create.
NumFences == 2
\* Entries (command lists and signals) the command queue holds at once.
MaxQueue == 4
\* Command buffers an application that presents no window has in use at once.
MaxInUse == 2
\* Slots of a window's in-flight fence ring.
MAX_FRAMES_IN_FLIGHT == 2
D3D12_FENCE_UNSIGNALED_VALUE == 0
D3D12_FENCE_SIGNAL_VALUE == 1

\* Native swapchains the DXGI factory creates for the window.
MaxSwapchains == 3

CommandBufferIds == 1..NumCommandBuffers
FenceIds == 1..NumFences

\* The swapchain compositions and present modes an application asks for; the
\* last present mode is a value outside the enumeration.
SwapchainCompositions == {"SDR", "HDR_ADVANCED"}
PresentModes == {"VSYNC", "MAILBOX", "UNRECOGNIZED"}

SwapchainCompositionToColorSpace(swapchainComposition) ==
    IF swapchainComposition = "SDR"
    THEN "RGB_FULL_G22_NONE_P709"
    ELSE "RGB_FULL_G2084_NONE_P2020"

D3D12_SupportsPresentMode(presentMode) ==
    presentMode \in {"IMMEDIATE", "VSYNC", "MAILBOX"}
FrameSlots == 0..(MAX_FRAMES_IN_FLIGHT - 1)

\* The renderer's state as one value, for the helpers below to transform.
\* retired collects what D3D12_INTERNAL_CleanCommandBuffer saw in this call;
\* ret is the helper's return value.
Renderer ==
    [commandBuffers |-> commandBuffers,
     availableCommandBuffers |-> availableCommandBuffers,
     submittedCommandBuffers |-> submittedCommandBuffers,
     fences |-> fences,
     availableFences |-> availableFences,
     commandQueue |-> commandQueue,
     windowData |-> windowData,
     retired |-> {},
     ret |-> NULL]

\* SDL_AtomicIncRef / SDL_AtomicDecRef on a fence; DecRef answers whether the
\* count was 1 before the decrement.
FenceIncRef(R, fence) == [R EXCEPT !.fences[fence].referenceCount = @ + 1]

FenceDecRef(R, fence) ==
    [R EXCEPT !.fences[fence].referenceCount = @ - 1,
              !.ret = (R.fences[fence].referenceCount = 1)]

D3D12_INTERNAL_ReleaseFenceToPool(R, fence) ==
    [R EXCEPT !.availableFences = Append(@, fence)]

\* A release that drops the reference and never hands the fence to the pool.
ReleaseFenceKeepsOut(R, fence) == FenceDecRef(R, fence)

D3D12_ReleaseFence(R, fence) ==
    LET R1 == FenceDecRef(R, fence)
    IN  IF R1.ret THEN D3D12_INTERNAL_ReleaseFenceToPool(R1, fence) ELSE R1

D3D12_QueryFence(R, fence) ==
    R.fences[fence].value = D3D12_FENCE_SIGNAL_VALUE

\* A fence can be had: the pool holds one, or the device can create one more.
FenceObtainable ==
    \/ Len(availableFences) > 0
    \/ \E f \in FenceIds : ~fences[f].created

\* An acquisition that hands a pooled fence out with the value it has.
AcquireFenceKeepsValue(R) ==
    LET availableFenceCount == Len(R.availableFences)
        fresh == SetMin({f \in FenceIds : ~R.fences[f].created})
        pooled == R.availableFences[availableFenceCount]
    IN  IF availableFenceCount = 0
        THEN [R EXCEPT !.fences[fresh] =
                           [created |-> TRUE,
                            value |-> D3D12_FENCE_UNSIGNALED_VALUE,
                            event |-> FALSE,
                            onCompletion |-> FALSE,
                            referenceCount |-> 0],
                       !.ret = fresh]
        ELSE [R EXCEPT !.availableFences = SubSeq(@, 1, availableFenceCount - 1),
                       !.ret = pooled]

D3D12_INTERNAL_AcquireFence(R) ==
    LET availableFenceCount == Len(R.availableFences)
        fresh == SetMin({f \in FenceIds : ~R.fences[f].created})
        pooled == R.availableFences[availableFenceCount]
    IN  IF availableFenceCount = 0
        THEN [R EXCEPT !.fences[fresh] =
                           [created |-> TRUE,
                            value |-> D3D12_FENCE_UNSIGNALED_VALUE,
                            event |-> FALSE,
                            onCompletion |-> FALSE,
                            referenceCount |-> 0],
                       !.ret = fresh]
        ELSE [R EXCEPT !.availableFences = SubSeq(@, 1, availableFenceCount - 1),
                       !.fences[pooled].value = D3D12_FENCE_UNSIGNALED_VALUE,
                       !.ret = pooled]

\* ID3D12CommandQueue_ExecuteCommandLists and ID3D12CommandQueue_Signal append
\* to the queue; the GPU takes entries from its head.
ExecuteCommandLists(R, commandBuffer) ==
    [R EXCEPT !.commandQueue = Append(@, <<"execute", commandBuffer>>)]

\* A signal that never reaches the queue.
CommandQueueSignalDropped(R, fence) == R

CommandQueueSignal(R, fence) ==
    [R EXCEPT !.commandQueue = Append(@, <<"signal", fence>>)]

\* ID3D12Fence_SetEventOnCompletion(fence, 1, fence->event): the event is set
\* at once if the fence already reads 1, and otherwise when it reaches 1.
SetEventOnCompletion(R, fence) ==
    IF R.fences[fence].value = D3D12_FENCE_SIGNAL_VALUE
    THEN [R EXCEPT !.fences[fence].event = TRUE]
    ELSE [R EXCEPT !.fences[fence].onCompletion = TRUE]

\* The swap-with-last removal at the end of D3D12_INTERNAL_CleanCommandBuffer.
RemoveSubmitted(submitted, commandBuffer) ==
    LET count == Len(submitted)
        i == CHOOSE j \in 1..count : submitted[j] = commandBuffer
    IN  SubSeq([submitted EXCEPT ![i] = submitted[count]], 1, count - 1)

D3D12_INTERNAL_CleanCommandBuffer(R, commandBuffer) ==
    LET cb == R.commandBuffers[commandBuffer]
        R1 == IF cb.autoReleaseFence
              THEN [D3D12_ReleaseFence(R, cb.inFlightFence)
                       EXCEPT !.commandBuffers[commandBuffer].inFlightFence = NULL]
              ELSE R
    IN  [R1 EXCEPT !.commandBuffers[commandBuffer].presentDataCount = 0,
                   !.commandBuffers[commandBuffer].state = "available",
                   !.availableCommandBuffers = Append(@, commandBuffer),
                   !.submittedCommandBuffers = RemoveSubmitted(@, commandBuffer),
                   !.retired = @ \cup
                       {[commandBuffer |-> commandBuffer,
                         fence |-> cb.inFlightFence,
                         value |-> R.fences[cb.inFlightFence].value,
                         autoReleaseFence |-> cb.autoReleaseFence,
                         presentDataCount |-> cb.presentDataCount]}]

RECURSIVE CheckForCleanups(_, _, _)
\* The loop "for i = submittedCommandBufferCount - 1 down to 0" that ends
\* Submit, WaitForFences and Wait; Wait cleans without looking at the fence.
CheckForCleanups(R, i, unconditional) ==
    IF i < 1 THEN R
    ELSE LET commandBuffer == R.submittedCommandBuffers[i]
             fenceValue == R.fences[R.commandBuffers[commandBuffer].inFlightFence].value
         IN  CheckForCleanups(
                 IF unconditional \/ fenceValue = D3D12_FENCE_SIGNAL_VALUE
                 THEN D3D12_INTERNAL_CleanCommandBuffer(R, commandBuffer)
                 ELSE R,
                 i - 1, unconditional)

\* The application thread when it is in no call.
Idle == [op |-> "idle", commandBuffer |-> NULL, waitAll |-> FALSE, pFences |-> {}]

\* What the last call did, for the properties to look at: the command buffers
\* it retired, whether the queue held no command list when it returned, and
\* whether the fences it waited on satisfied its wait condition.
NoCall == [op |-> "none", retired |-> {}, idle |-> TRUE, met |-> TRUE]

CallRecord(op, R, met) ==
    [op |-> op, retired |-> R.retired,
     idle |-> \A i \in 1..Len(R.commandQueue) : R.commandQueue[i][1] # "execute",
     met |-> met]

CommitRendererState(R) ==
    /\ commandBuffers' = R.commandBuffers
    /\ availableCommandBuffers' = R.availableCommandBuffers
    /\ submittedCommandBuffers' = R.submittedCommandBuffers
    /\ fences' = R.fences
    /\ availableFences' = R.availableFences
    /\ commandQueue' = R.commandQueue
    /\ windowData' = R.windowData

CommitRenderer(R) ==
    /\ CommitRendererState(R)
    /\ UNCHANGED nonFenceVars

\* A command buffer can be had: the pool holds one, or the device can allocate
\* one more.
CommandBufferObtainable ==
    \/ Len(availableCommandBuffers) > 0
    \/ \E c \in CommandBufferIds : commandBuffers[c].state = "unallocated"

D3D12_INTERNAL_AllocateCommandBuffer(R) ==
    LET fresh == SetMin({c \in CommandBufferIds :
                            R.commandBuffers[c].state = "unallocated"})
    IN  [R EXCEPT !.commandBuffers[fresh].state = "available",
                  !.commandBuffers[fresh].inFlightFence = NULL,
                  !.commandBuffers[fresh].presentDataCount = 0,
                  !.availableCommandBuffers = Append(@, fresh)]

D3D12_INTERNAL_AcquireCommandBufferFromPool(R) ==
    LET R1 == IF Len(R.availableCommandBuffers) = 0
              THEN D3D12_INTERNAL_AllocateCommandBuffer(R)
              ELSE R
        availableCommandBufferCount == Len(R1.availableCommandBuffers)
    IN  [R1 EXCEPT !.availableCommandBuffers =
                       SubSeq(@, 1, availableCommandBufferCount - 1),
                   !.ret = R1.availableCommandBuffers[availableCommandBufferCount]]

D3D12_AcquireCommandBuffer ==
    /\ thread.op = "idle"
    /\ CommandBufferObtainable
    /\ LET R1 == D3D12_INTERNAL_AcquireCommandBufferFromPool(Renderer)
           commandBuffer == R1.ret
       IN  CommitRenderer(
               [R1 EXCEPT !.commandBuffers[commandBuffer].state = "recording",
                          !.commandBuffers[commandBuffer].autoReleaseFence = TRUE])
    /\ lastCall' = NoCall
    /\ UNCHANGED <<heldFences, thread>>

\* The loop "Present, if applicable" of D3D12_Submit, for the one window.
SubmitPresent(R, commandBuffer) ==
    IF R.commandBuffers[commandBuffer].presentDataCount = 0 THEN R
    ELSE LET fence == R.commandBuffers[commandBuffer].inFlightFence
             frameCounter == R.windowData.frameCounter
             R1 == [R EXCEPT !.windowData.inFlightFences[frameCounter] = fence]
         IN  [FenceIncRef(R1, fence) EXCEPT
                 !.windowData.frameCounter = (frameCounter + 1) % MAX_FRAMES_IN_FLIGHT]

\* D3D12_Submit from "Submit the command list to the queue" to its end.
SubmitResult(R, commandBuffer) ==
    LET R1 == D3D12_INTERNAL_AcquireFence(ExecuteCommandLists(R, commandBuffer))
        fence == R1.ret
        R2 == FenceIncRef(
                  [R1 EXCEPT !.commandBuffers[commandBuffer].inFlightFence = fence],
                  fence)
        R3 == [CommandQueueSignal(R2, fence) EXCEPT
                  !.commandBuffers[commandBuffer].state = "submitted",
                  !.submittedCommandBuffers = Append(@, commandBuffer)]
        R4 == SubmitPresent(R3, commandBuffer)
    IN  CheckForCleanups(R4, Len(R4.submittedCommandBuffers), FALSE)

Submittable(commandBuffer) ==
    /\ thread.op = "idle"
    /\ commandBuffers[commandBuffer].state = "recording"
    /\ FenceObtainable
    /\ Len(commandQueue) + 2 <= MaxQueue

D3D12_Submit(commandBuffer) ==
    /\ Submittable(commandBuffer)
    /\ LET R1 == SubmitResult(Renderer, commandBuffer)
       IN  /\ CommitRenderer(R1)
           /\ lastCall' = CallRecord("Submit", R1, TRUE)
    /\ UNCHANGED <<heldFences, thread>>

D3D12_SubmitAndAcquireFence(commandBuffer) ==
    /\ Submittable(commandBuffer)
    /\ LET R0 == [Renderer EXCEPT
                     !.commandBuffers[commandBuffer].autoReleaseFence = FALSE]
           R1 == SubmitResult(R0, commandBuffer)
       IN  /\ CommitRenderer(R1)
           /\ lastCall' = CallRecord("Submit", R1, TRUE)
           /\ heldFences' = heldFences \cup
                               {R1.commandBuffers[commandBuffer].inFlightFence}
    /\ UNCHANGED thread

\* SDL_GpuReleaseFence on a fence the application got from
\* SubmitAndAcquireFence.
ReleaseFence(fence) ==
    /\ thread.op = "idle"
    /\ fence \in heldFences
    /\ CommitRenderer(D3D12_ReleaseFence(Renderer, fence))
    /\ heldFences' = heldFences \ {fence}
    /\ lastCall' = NoCall
    /\ UNCHANGED thread

\* D3D12_Wait up to the signal it appends to the queue.
D3D12_Wait ==
    /\ thread.op = "idle"
    /\ FenceObtainable
    /\ Len(commandQueue) + 1 <= MaxQueue
    /\ LET R1 == D3D12_INTERNAL_AcquireFence(Renderer)
       IN  /\ CommitRenderer(CommandQueueSignal(R1, R1.ret))
           /\ thread' = [Idle EXCEPT !.op = "Wait", !.pFences = {R1.ret}]
    /\ lastCall' = NoCall
    /\ UNCHANGED heldFences

\* D3D12_Wait from "Clean up" to its end.
WaitCleanUp(R, fence) ==
    LET R1 == D3D12_ReleaseFence(R, fence)
    IN  CheckForCleanups(R1, Len(R1.submittedCommandBuffers), TRUE)

\* D3D12_Wait at "...and then block on it": it blocks on the fence's event
\* unless the fence already reads 1.
D3D12_Wait_Block ==
    /\ thread.op = "Wait"
    /\ LET fence == CHOOSE f \in thread.pFences : TRUE
       IN  IF fences[fence].value # D3D12_FENCE_SIGNAL_VALUE
           THEN /\ CommitRenderer(SetEventOnCompletion(Renderer, fence))
                /\ thread' = [thread EXCEPT !.op = "WaitForSingleObject"]
                /\ lastCall' = NoCall
           ELSE LET R1 == WaitCleanUp(Renderer, fence)
                IN  /\ CommitRenderer(R1)
                    /\ thread' = Idle
                    /\ lastCall' = CallRecord("Wait", R1, TRUE)
    /\ UNCHANGED heldFences

\* WaitForSingleObject returns: the auto-reset event was set and is reset.
D3D12_Wait_Return ==
    /\ thread.op = "WaitForSingleObject"
    /\ LET fence == CHOOSE f \in thread.pFences : TRUE
       IN  /\ fences[fence].event
           /\ LET R1 == WaitCleanUp(
                            [Renderer EXCEPT !.fences[fence].event = FALSE], fence)
              IN  /\ CommitRenderer(R1)
                  /\ lastCall' = CallRecord("Wait", R1, TRUE)
    /\ thread' = Idle
    /\ UNCHANGED heldFences

RECURSIVE SetEventsOnCompletion(_, _)
\* The loop of D3D12_WaitForFences over pFences.
SetEventsOnCompletion(R, pFences) ==
    IF pFences = {} THEN R
    ELSE LET fence == SetMin(pFences)
         IN  SetEventsOnCompletion(SetEventOnCompletion(R, fence), pFences \ {fence})

\* The wait condition of WaitForFences, as the header states it.
WaitConditionMet(R, waitAll, pFences) ==
    IF waitAll
    THEN \A f \in pFences : D3D12_QueryFence(R, f)
    ELSE \E f \in pFences : D3D12_QueryFence(R, f)

\* WaitForMultipleObjects returns: with waitAll every event was set and all are
\* reset; without it one event that was set is reset.
WaitForMultipleObjects(R, waitAll, pFences, satisfying) ==
    IF waitAll
    THEN [R EXCEPT !.fences = [f \in FenceIds |->
                 IF f \in pFences THEN [R.fences[f] EXCEPT !.event = FALSE]
                 ELSE R.fences[f]]]
    ELSE [R EXCEPT !.fences[satisfying].event = FALSE]

WaitForMultipleObjectsReady(waitAll, pFences, satisfying) ==
    /\ satisfying \in pFences
    /\ fences[satisfying].event
    /\ waitAll => /\ \A f \in pFences : fences[f].event
                  /\ satisfying = SetMin(pFences)

\* D3D12_WaitForFences from WaitForMultipleObjects' return to its end.
WaitForFencesResult(waitAll, pFences, satisfying) ==
    LET R1 == WaitForMultipleObjects(Renderer, waitAll, pFences, satisfying)
    IN  CheckForCleanups(R1, Len(R1.submittedCommandBuffers), FALSE)

\* D3D12_WaitForFences up to WaitForMultipleObjects.
D3D12_WaitForFences(waitAll, pFences) ==
    /\ thread.op = "idle"
    /\ pFences # {}
    /\ pFences \subseteq heldFences
    /\ CommitRenderer(SetEventsOnCompletion(Renderer, pFences))
    /\ thread' = [Idle EXCEPT !.op = "WaitForFences", !.waitAll = waitAll,
                              !.pFences = pFences]
    /\ lastCall' = NoCall
    /\ UNCHANGED heldFences

D3D12_WaitForFences_Return ==
    /\ thread.op = "WaitForFences"
    /\ \E satisfying \in thread.pFences :
          /\ WaitForMultipleObjectsReady(thread.waitAll, thread.pFences, satisfying)
          /\ LET R1 == WaitForFencesResult(thread.waitAll, thread.pFences, satisfying)
             IN  /\ CommitRenderer(R1)
                 /\ lastCall' = CallRecord("WaitForFences", R1,
                                    WaitConditionMet(Renderer, thread.waitAll,
                                                     thread.pFences))
    /\ thread' = Idle
    /\ UNCHANGED heldFences

\* D3D12_AcquireSwapchainTexture from "Set up presentation" to its end.
SetUpPresentation(R, commandBuffer) ==
    [R EXCEPT !.commandBuffers[commandBuffer].presentDataCount = @ + 1]

\* The ring's current slot belongs to an acquisition that has not completed:
\* a command buffer took the swapchain texture and is not submitted yet, or the
\* slot holds the fence of a submission the GPU has not finished.
SlotOwned ==
    LET fence == windowData.inFlightFences[windowData.frameCounter]
    IN  \/ \E c \in CommandBufferIds :
              /\ commandBuffers[c].state = "recording"
              /\ commandBuffers[c].presentDataCount > 0
        \/ fence # NULL /\ ~D3D12_QueryFence(Renderer, fence)

\* What D3D12_AcquireSwapchainTexture returned, with the present mode it ran
\* in and whether the ring's current slot was owned when it was called.
AcquireRecord(R, ret) ==
    [op |-> "AcquireSwapchainTexture", retired |-> R.retired,
     idle |-> \A i \in 1..Len(R.commandQueue) : R.commandQueue[i][1] # "execute",
     met |-> TRUE, ret |-> ret, presentMode |-> windowData.presentMode,
     owned |-> SlotOwned]

\* D3D12_AcquireSwapchainTexture on the window, whose size does not change.
\* With the ring's current slot taken, in VSYNC mode it waits for that slot's
\* fence, and in the other modes it returns NULL while the fence is unsignalled.
D3D12_AcquireSwapchainTexture(commandBuffer) ==
    /\ thread.op = "idle"
    /\ commandBuffers[commandBuffer].state = "recording"
    /\ commandBuffers[commandBuffer].presentDataCount = 0
    /\ windowData.swapchain # NULL
    /\ LET frameCounter == windowData.frameCounter
           fence == windowData.inFlightFences[frameCounter]
       IN  IF fence # NULL /\ windowData.presentMode = "VSYNC"
           THEN /\ CommitRenderer(SetEventsOnCompletion(Renderer, {fence}))
                /\ thread' = [op |-> "AcquireSwapchainTexture",
                              commandBuffer |-> commandBuffer,
                              waitAll |-> TRUE, pFences |-> {fence}]
                /\ lastCall' = NoCall
           ELSE IF fence # NULL /\ ~D3D12_QueryFence(Renderer, fence)
           THEN /\ CommitRenderer(Renderer)
                /\ thread' = Idle
                /\ lastCall' = AcquireRecord(Renderer, "NULL")
           ELSE LET R1 == IF fence # NULL
                          THEN [D3D12_ReleaseFence(Renderer, fence) EXCEPT
                                   !.windowData.inFlightFences[frameCounter] = NULL]
                          ELSE Renderer
                    R2 == SetUpPresentation(R1, commandBuffer)
                IN  /\ CommitRenderer(R2)
                    /\ thread' = Idle
                    /\ lastCall' = AcquireRecord(R2, "texture")
    /\ UNCHANGED heldFences

\* The wait of D3D12_AcquireSwapchainTexture returns; the slot's fence is
\* released and the slot emptied.
D3D12_AcquireSwapchainTexture_Return ==
    /\ thread.op = "AcquireSwapchainTexture"
    /\ LET fence == CHOOSE f \in thread.pFences : TRUE
       IN  /\ WaitForMultipleObjectsReady(TRUE, thread.pFences, fence)
           /\ LET R1 == WaitForFencesResult(TRUE, thread.pFences, fence)
                  R2 == [D3D12_ReleaseFence(R1, fence) EXCEPT
                            !.windowData.inFlightFences[windowData.frameCounter] = NULL]
                  R3 == SetUpPresentation(R2, thread.commandBuffer)
              IN  /\ CommitRenderer(R3)
                  /\ lastCall' = CallRecord("WaitForFences", R3,
                                     WaitConditionMet(Renderer, TRUE, thread.pFences))
    /\ thread' = Idle
    /\ UNCHANGED heldFences

\* The thread when it is inside no swapchain operation.
NoCaller == [op |-> "none"]

\* What a swapchain operation returned, with the window as it was before.
WindowCallRecord(op, R, ret, before) ==
    [op |-> op, retired |-> R.retired,
     idle |-> \A i \in 1..Len(R.commandQueue) : R.commandQueue[i][1] # "execute",
     met |-> TRUE, ret |-> ret, before |-> before]

\* The back-buffer texture containers are freed and the native swapchain is
\* released.
D3D12_INTERNAL_DestroySwapchain(R) ==
    [R EXCEPT !.windowData.textureContainers = NULL,
              !.windowData.swapchain = NULL]

\* The factory creates the native swapchain numbered fresh; the window takes
\* it, and the parameters, only when the driver's answer to
\* CheckColorSpaceSupport, support, allows the colour space the window holds.
D3D12_INTERNAL_CreateSwapchain(R, fresh, swapchainComposition, presentMode, support) ==
    IF ~support
    THEN [R EXCEPT !.ret = FALSE]
    ELSE [R EXCEPT !.windowData.swapchain = fresh,
                   !.windowData.presentMode = presentMode,
                   !.windowData.swapchainComposition = swapchainComposition,
                   !.windowData.swapchainColorSpace =
                       SwapchainCompositionToColorSpace(swapchainComposition),
                   !.windowData.frameCounter = 0,
                   !.windowData.textureContainers = fresh,
                   !.ret = TRUE]

\* D3D12_SetSwapchainParameters up to the signal that the D3D12_Wait it calls
\* appends to the queue.  displaySupport is the device's answer about the
\* composition's format.
D3D12_SetSwapchainParameters(swapchainComposition, presentMode, displaySupport) ==
    /\ thread.op = "idle"
    /\ caller.op = "none"
    /\ windowData.swapchain # NULL
    /\ IF ~displaySupport \/ ~D3D12_SupportsPresentMode(presentMode)
       THEN /\ CommitRendererState(Renderer)
            /\ lastCall' = WindowCallRecord("SetSwapchainParameters", Renderer,
                                            FALSE, windowData)
            /\ UNCHANGED <<thread, caller>>
       ELSE IF \/ swapchainComposition # windowData.swapchainComposition
               \/ presentMode # windowData.presentMode
       THEN /\ createdSwapchains < MaxSwapchains
            /\ FenceObtainable
            /\ Len(commandQueue) + 1 <= MaxQueue
            /\ LET R1 == D3D12_INTERNAL_AcquireFence(Renderer)
               IN  /\ CommitRendererState(CommandQueueSignal(R1, R1.ret))
                   /\ thread' = [Idle EXCEPT !.op = "Wait", !.pFences = {R1.ret}]
            /\ caller' = [op |-> "SetSwapchainParameters",
                          swapchainComposition |-> swapchainComposition,
                          presentMode |-> presentMode,
                          before |-> windowData]
            /\ lastCall' = NoCall
       ELSE /\ CommitRendererState(Renderer)
            /\ lastCall' = WindowCallRecord("SetSwapchainParameters", Renderer,
                                            TRUE, windowData)
            /\ UNCHANGED <<thread, caller>>
    /\ UNCHANGED <<heldFences, createdSwapchains>>
    /\ UNCHANGED nonWindowVars

\* D3D12_SetSwapchainParameters after its D3D12_Wait returned: the swapchain is
\* destroyed and created anew.  colorSpaceSupport is the driver's answer to
\* CheckColorSpaceSupport.
D3D12_SetSwapchainParameters_Recreate(colorSpaceSupport) ==
    /\ caller.op = "SetSwapchainParameters"
    /\ thread.op = "idle"
    /\ LET R1 == D3D12_INTERNAL_CreateSwapchain(
                     D3D12_INTERNAL_DestroySwapchain(Renderer),
                     createdSwapchains + 1, caller.swapchainComposition,
                     caller.presentMode, colorSpaceSupport)
       IN  /\ CommitRendererState(R1)
           /\ lastCall' = WindowCallRecord("SetSwapchainParameters", R1, R1.ret,
                                           caller.before)
    /\ createdSwapchains' = createdSwapchains + 1
    /\ caller' = NoCaller
    /\ UNCHANGED <<heldFences, thread>>
    /\ UNCHANGED nonWindowVars

\* D3D12_UnclaimWindow up to the signal that the D3D12_Wait it calls appends to
\* the queue.
D3D12_UnclaimWindow ==
    /\ thread.op = "idle"
    /\ caller.op = "none"
    /\ windowData.swapchain # NULL
    /\ FenceObtainable
    /\ Len(commandQueue) + 1 <= MaxQueue
    /\ LET R1 == D3D12_INTERNAL_AcquireFence(Renderer)
       IN  /\ CommitRendererState(CommandQueueSignal(R1, R1.ret))
           /\ thread' = [Idle EXCEPT !.op = "Wait", !.pFences = {R1.ret}]
    /\ caller' = [op |-> "UnclaimWindow"]
    /\ lastCall' = NoCall
    /\ UNCHANGED <<heldFences, createdSwapchains>>
    /\ UNCHANGED nonWindowVars

RECURSIVE ReleaseInFlightFences(_, _)
\* The loop of D3D12_UnclaimWindow over the ring's slots.
ReleaseInFlightFences(R, i) ==
    IF i >= MAX_FRAMES_IN_FLIGHT THEN R
    ELSE ReleaseInFlightFences(
             IF R.windowData.inFlightFences[i] # NULL
             THEN D3D12_ReleaseFence(R, R.windowData.inFlightFences[i])
             ELSE R,
             i + 1)

\* D3D12_UnclaimWindow after its D3D12_Wait returned: the ring's fences are
\* released, the swapchain is destroyed and the window's data is freed.
D3D12_UnclaimWindow_Destroy ==
    /\ caller.op = "UnclaimWindow"
    /\ thread.op = "idle"
    /\ LET R1 == D3D12_INTERNAL_DestroySwapchain(ReleaseInFlightFences(Renderer, 0))
       IN  /\ CommitRendererState(
                  [R1 EXCEPT !.windowData.inFlightFences =
                                 [i \in FrameSlots |-> NULL]])
           /\ lastCall' = WindowCallRecord("UnclaimWindow", R1, TRUE, windowData)
    /\ caller' = NoCaller
    /\ UNCHANGED <<heldFences, thread, createdSwapchains>>
    /\ UNCHANGED nonWindowVars

\* The GPU takes the entry at the head of the queue: it executes a command
\* list, or it signals a fence, which sets the event waiting for it.
GpuStep ==
    /\ Len(commandQueue) > 0
    /\ LET head == Head(commandQueue)
           fence == head[2]
       IN  /\ commandQueue' = Tail(commandQueue)
           /\ fences' =
                 IF head[1] = "signal"
                 THEN [fences EXCEPT
                          ![fence].value = D3D12_FENCE_SIGNAL_VALUE,
                          ![fence].event = @ \/ fences[fence].onCompletion,
                          ![fence].onCompletion = FALSE]
                 ELSE fences
    /\ lastCall' = NoCall
    /\ UNCHANGED <<commandBuffers, availableCommandBuffers, submittedCommandBuffers,
                   availableFences, windowData, heldFences, thread>>
    /\ UNCHANGED nonFenceVars

InitFences ==
    /\ commandBuffers = [c \in CommandBufferIds |->
                            [state |-> "unallocated", inFlightFence |-> NULL,
                             autoReleaseFence |-> TRUE, presentDataCount |-> 0]]
    /\ availableCommandBuffers = <<>>
    /\ submittedCommandBuffers = <<>>
    /\ fences = [f \in FenceIds |->
                    [created |-> FALSE, value |-> D3D12_FENCE_UNSIGNALED_VALUE,
                     event |-> FALSE, onCompletion |-> FALSE, referenceCount |-> 0]]
    /\ availableFences = <<>>
    /\ commandQueue = <<>>
    /\ windowData = [swapchain |-> 1,
                     textureContainers |-> 1,
                     presentMode |-> "VSYNC",
                     swapchainComposition |-> "SDR",
                     swapchainColorSpace |-> SwapchainCompositionToColorSpace("SDR"),
                     frameCounter |-> 0,
                     inFlightFences |-> [i \in FrameSlots |-> NULL]]
    /\ heldFences = {}
    /\ thread = Idle
    /\ lastCall = NoCall

InitWindow ==
    /\ caller = NoCaller
    /\ createdSwapchains = 1

\* The second thread when it is in no call.
NoFenceCall == [op |-> "none", commandBuffer |-> NULL, fence |-> NULL]

\* D3D12_SubmitAndAcquireFence on a second thread, up to the return of the
\* D3D12_Submit it calls, which releases the submit lock.  fence is the fence
\* that submission acquired and signals.
D3D12_SubmitAndAcquireFence_Submit(commandBuffer) ==
    /\ fenceCall.op = "none"
    /\ Submittable(commandBuffer)
    /\ LET R0 == [Renderer EXCEPT
                     !.commandBuffers[commandBuffer].autoReleaseFence = FALSE]
           R1 == SubmitResult(R0, commandBuffer)
       IN  /\ CommitRendererState(R1)
           /\ lastCall' = CallRecord("Submit", R1, TRUE)
           /\ fenceCall' = [op |-> "SubmitAndAcquireFence",
                            commandBuffer |-> commandBuffer,
                            fence |-> R1.commandBuffers[commandBuffer].inFlightFence]
    /\ UNCHANGED <<heldFences, thread>>
    /\ UNCHANGED nonConcurrentVars

\* D3D12_SubmitAndAcquireFence at its return statement: it reads the command
\* buffer's inFlightFence, with no lock held.
D3D12_SubmitAndAcquireFence_Return ==
    /\ fenceCall.op = "SubmitAndAcquireFence"
    /\ heldFences' = heldFences \cup
                        {commandBuffers[fenceCall.commandBuffer].inFlightFence}
    /\ fenceCall' = NoFenceCall
    /\ lastCall' = NoCall
    /\ UNCHANGED <<commandBuffers, availableCommandBuffers, submittedCommandBuffers,
                   fences, availableFences, commandQueue, windowData, thread>>
    /\ UNCHANGED nonConcurrentVars

InitConcurrent == fenceCall = NoFenceCall

CommandBuffersInUse ==
    {c \in CommandBufferIds : commandBuffers[c].state \in {"recording", "submitted"}}

\* An application that submits, waits and handles fences, and presents no window.
Next ==
    \/ Cardinality(CommandBuffersInUse) < MaxInUse /\ D3D12_AcquireCommandBuffer
    \/ \E c \in CommandBufferIds : D3D12_Submit(c)
    \/ \E c \in CommandBufferIds : D3D12_SubmitAndAcquireFence(c)
    \/ \E f \in FenceIds : ReleaseFence(f)
    \/ D3D12_Wait
    \/ D3D12_Wait_Block
    \/ D3D12_Wait_Return
    \/ \E waitAll \in BOOLEAN : \E pFences \in SUBSET FenceIds :
          D3D12_WaitForFences(waitAll, pFences)
    \/ D3D12_WaitForFences_Return
    \/ GpuStep

\* An application that presents the window in VSYNC mode.
NextPresent ==
    \/ D3D12_AcquireCommandBuffer
    \/ \E c \in CommandBufferIds : D3D12_AcquireSwapchainTexture(c)
    \/ D3D12_AcquireSwapchainTexture_Return
    \/ \E c \in CommandBufferIds : D3D12_Submit(c)
    \/ \E c \in CommandBufferIds : D3D12_SubmitAndAcquireFence(c)
    \/ \E f \in FenceIds : ReleaseFence(f)
    \/ D3D12_Wait
    \/ D3D12_Wait_Block
    \/ D3D12_Wait_Return
    \/ GpuStep

\* An application that presents the window and changes its swapchain
\* parameters.  A swapchain operation that waits for the GPU runs to its end
\* before the thread makes its next call.
NextWindow ==
    \/ /\ caller.op = "none"
       /\ Cardinality(CommandBuffersInUse) < MaxInUse
       /\ D3D12_AcquireCommandBuffer
    \/ /\ caller.op = "none"
       /\ \E c \in CommandBufferIds : D3D12_AcquireSwapchainTexture(c)
    \/ D3D12_AcquireSwapchainTexture_Return
    \/ /\ caller.op = "none"
       /\ \E c \in CommandBufferIds :
             /\ commandBuffers[c].presentDataCount > 0 => windowData.swapchain # NULL
             /\ D3D12_Submit(c)
    \/ \E swapchainComposition \in SwapchainCompositions,
          presentMode \in PresentModes, displaySupport \in BOOLEAN :
          D3D12_SetSwapchainParameters(swapchainComposition, presentMode,
                                       displaySupport)
    \/ \E colorSpaceSupport \in BOOLEAN :
          D3D12_SetSwapchainParameters_Recreate(colorSpaceSupport)
    \/ D3D12_UnclaimWindow
    \/ D3D12_UnclaimWindow_Destroy
    \/ caller.op = "none" /\ D3D12_Wait
    \/ D3D12_Wait_Block
    \/ D3D12_Wait_Return
    \/ GpuStep

\* Two application threads: one is inside SubmitAndAcquireFence while the
\* other acquires and submits command buffers, waits for fences and releases
\* them.
NextConcurrent ==
    \/ Cardinality(CommandBuffersInUse) < MaxInUse /\ D3D12_AcquireCommandBuffer
    \/ \E c \in CommandBufferIds : D3D12_Submit(c)
    \/ \E c \in CommandBufferIds : D3D12_SubmitAndAcquireFence_Submit(c)
    \/ D3D12_SubmitAndAcquireFence_Return
    \/ \E f \in FenceIds : ReleaseFence(f)
    \/ \E waitAll \in BOOLEAN : \E pFences \in SUBSET FenceIds :
          D3D12_WaitForFences(waitAll, pFences)
    \/ D3D12_WaitForFences_Return
    \/ GpuStep

(***************************************************************************)
(* The pool of uniform wrappers                                            *)
(*                                                                         *)
(* Several command buffers push uniform data for the vertex, fragment and  *)
(* compute stages; the payloads are left out.                              *)
(***************************************************************************)
\* Command buffers that push uniform data.
NumWrapperCommandBuffers == 2
\* Pushes one command buffer records.
MaxWrapperCommands == 2
\* Bytes one push carries: two pushes fill a wrapper.
WrapperPushLength == 64

WrapperCommandBuffers == 1..NumWrapperCommandBuffers
WrapperStages == {"VERTEX", "FRAGMENT", "COMPUTE"}

\* The allocator state of command buffer cb, for the helpers of the uniform
\* sub-allocator to transform.
WrapperState(cb) ==
    [ub |-> wrappers, map |-> wrapperMapped, pool |-> wrapperPool,
     n |-> wrapperCount, used |-> wcb[cb].usedUniformBuffers, ret |-> NULL]

CommitWrapperState(s, cb, slots) ==
    /\ wrappers' = s.ub
    /\ wrapperMapped' = s.map
    /\ wrapperPool' = s.pool
    /\ wrapperCount' = s.n
    /\ wcb' = [wcb EXCEPT ![cb].usedUniformBuffers = s.used, ![cb].slots = slots,
                          ![cb].commandCount = @ + 1]
    /\ UNCHANGED nonWrapperVars

\* D3D12_AcquireCommandBuffer: the uniform slots of every stage are zeroed.
WrapperAcquireCommandBuffer(cb) ==
    /\ wcb[cb].state = "available"
    /\ wcb' = [wcb EXCEPT ![cb].state = "recording",
                          ![cb].commandCount = 0,
                          ![cb].slots = [st \in WrapperStages |-> NULL]]
    /\ UNCHANGED <<wrappers, wrapperMapped, wrapperCount, wrapperPool>>
    /\ UNCHANGED nonWrapperVars

\* D3D12_INTERNAL_PushUniformData on slot 0 of a stage.
WrapperPushUniformData(cb, shaderStage, dataLengthInBytes) ==
    LET slot == wcb[cb].slots[shaderStage]
        s0 == WrapperState(cb)
        s1 == IF slot = NULL
              THEN D3D12_INTERNAL_AcquireUniformBufferFromPool(s0)
              ELSE [s0 EXCEPT !.ret = slot]
        w1 == s1.ret
        block == D3D12_INTERNAL_Align(dataLengthInBytes, 256)
        s2 == [s1 EXCEPT !.ub[w1].currentBlockSize = block]
        noRoom == s2.ub[w1].writeOffset + block >= UNIFORM_BUFFER_SIZE
        s3 == IF noRoom
              THEN D3D12_INTERNAL_AcquireUniformBufferFromPool(
                       [s2 EXCEPT !.map[w1] = FALSE])
              ELSE s2
        w == s3.ret
        s4 == [s3 EXCEPT !.ub[w].drawOffset = s3.ub[w].writeOffset]
        s5 == [s4 EXCEPT !.ub = AdvanceWriteOffset(s4.ub, w)]
        \* wrappers the push takes: one for an empty slot, one more if the
        \* slot's wrapper has no room for the block
        writeOffset == IF slot = NULL THEN 0 ELSE wrappers[slot].writeOffset
        needed == (IF slot = NULL THEN 1 ELSE 0)
                  + (IF writeOffset + block >= UNIFORM_BUFFER_SIZE THEN 1 ELSE 0)
    IN  /\ wcb[cb].state = "recording"
        /\ wcb[cb].commandCount < MaxWrapperCommands
        /\ needed <= Len(wrapperPool) + (MaxUniformBuffers - wrapperCount)
        /\ CommitWrapperState(s5, cb, [wcb[cb].slots EXCEPT ![shaderStage] = w])

\* D3D12_Submit: the wrappers in the vertex and fragment slots are unmapped.
WrapperSubmit(cb) ==
    /\ wcb[cb].state = "recording"
    /\ wrapperMapped' =
          [w \in UniformWrappers |->
              IF \/ wcb[cb].slots["VERTEX"] = w
                 \/ wcb[cb].slots["FRAGMENT"] = w
              THEN FALSE ELSE wrapperMapped[w]]
    /\ wcb' = [wcb EXCEPT ![cb].state = "submitted"]
    /\ UNCHANGED <<wrappers, wrapperCount, wrapperPool>>
    /\ UNCHANGED nonWrapperVars

\* D3D12_INTERNAL_CleanCommandBuffer: every used wrapper goes back to the pool.
WrapperCleanCommandBuffer(cb) ==
    /\ wcb[cb].state = "submitted"
    /\ wrapperPool' = wrapperPool \o wcb[cb].usedUniformBuffers
    /\ wcb' = [wcb EXCEPT ![cb].state = "available",
                          ![cb].usedUniformBuffers = <<>>]
    /\ UNCHANGED <<wrappers, wrapperMapped, wrapperCount>>
    /\ UNCHANGED nonWrapperVars

InitWrappers ==
    /\ wrappers = [w \in UniformWrappers |->
                      [writeOffset |-> 0, drawOffset |-> 0, currentBlockSize |-> 0]]
    /\ wrapperMapped = [w \in UniformWrappers |-> FALSE]
    /\ wrapperCount = 0
    /\ wrapperPool = <<>>
    /\ wcb = [cb \in WrapperCommandBuffers |->
                 [state |-> "available", commandCount |-> 0,
                  slots |-> [st \in WrapperStages |-> NULL],
                  usedUniformBuffers |-> <<>>]]

NextWrappers ==
    \/ \E cb \in WrapperCommandBuffers : WrapperAcquireCommandBuffer(cb)
    \/ \E cb \in WrapperCommandBuffers, st \in WrapperStages :
          WrapperPushUniformData(cb, st, WrapperPushLength)
    \/ \E cb \in WrapperCommandBuffers : WrapperSubmit(cb)
    \/ \E cb \in WrapperCommandBuffers : WrapperCleanCommandBuffer(cb)

(***************************************************************************)
(* Successive pushes of uniform data                                       *)
(*                                                                         *)
(* One command buffer pushes blocks of different lengths into its vertex   *)
(* and fragment slots; every push leaves a record of where it wrote.       *)
(***************************************************************************)
\* Pushes the command buffer records in one use.
MaxPushCommands == 3
\* Times the command buffer is acquired.
MaxPushUses == 2

NoPush ==
    [pushed |-> FALSE, wrapper |-> 0, offset |-> 0, before |-> 0, block |-> 0,
     replaced |-> FALSE]

PushState ==
    [ub |-> pushWrappers, map |-> pushMapped, pool |-> pushPool,
     n |-> pushWrapperCount, used |-> pcb.used, ret |-> NULL]

\* A wrapper counts as full only when the block would end beyond its end.
UniformBufferOverflows(writeOffset, currentBlockSize) ==
    writeOffset + currentBlockSize > UNIFORM_BUFFER_SIZE

\* writeOffset + currentBlockSize >= UNIFORM_BUFFER_SIZE
UniformBufferHasNoRoom(writeOffset, currentBlockSize) ==
    writeOffset + currentBlockSize >= UNIFORM_BUFFER_SIZE

\* D3D12_AcquireCommandBuffer: the uniform slots are emptied.
PushAcquireCommandBuffer ==
    /\ pcb.state = "available"
    /\ pcb.uses < MaxPushUses
    /\ pcb' = [pcb EXCEPT !.state = "recording", !.uses = @ + 1, !.commandCount = 0,
                          !.slots = [k \in UniformSlots |-> NULL]]
    /\ lastPush' = NoPush
    /\ UNCHANGED <<pushWrappers, pushMapped, pushWrapperCount, pushPool>>
    /\ UNCHANGED nonPushVars

\* D3D12_INTERNAL_PushUniformData, with the record of the push.
RecordedPushUniformData(shaderStage, slotIndex, dataLengthInBytes) ==
    LET k == <<shaderStage, slotIndex>>
        slot == pcb.slots[k]
        s0 == PushState
        s1 == IF slot = NULL
              THEN D3D12_INTERNAL_AcquireUniformBufferFromPool(s0)
              ELSE [s0 EXCEPT !.ret = slot]
        w1 == s1.ret
        block == D3D12_INTERNAL_Align(dataLengthInBytes, 256)
        s2 == [s1 EXCEPT !.ub[w1].currentBlockSize = block]
        \* the write offset the room test reads: 0 for a wrapper just acquired
        before == IF slot = NULL THEN 0 ELSE pushWrappers[slot].writeOffset
        noRoom == UniformBufferHasNoRoom(before, block)
        s3 == IF noRoom
              THEN D3D12_INTERNAL_AcquireUniformBufferFromPool(
                       [s2 EXCEPT !.map[w1] = FALSE])
              ELSE s2
        w == s3.ret
        off == s3.ub[w].writeOffset
        s4 == [s3 EXCEPT !.ub[w].drawOffset = off]
        s5 == [s4 EXCEPT !.ub = AdvanceWriteOffset(s4.ub, w)]
        needed == (IF slot = NULL THEN 1 ELSE 0) + (IF noRoom THEN 1 ELSE 0)
    IN  /\ pcb.state = "recording"
        /\ pcb.commandCount < MaxPushCommands
        /\ needed <= Len(pushPool) + (MaxUniformBuffers - pushWrapperCount)
        /\ pushWrappers' = s5.ub
        /\ pushMapped' = s5.map
        /\ pushPool' = s5.pool
        /\ pushWrapperCount' = s5.n
        /\ pcb' = [pcb EXCEPT !.used = s5.used, !.slots[k] = w, !.commandCount = @ + 1]
        /\ lastPush' = [pushed |-> TRUE, wrapper |-> w, offset |-> off,
                        before |-> before, block |-> block, replaced |-> w # w1]
        /\ UNCHANGED nonPushVars

\* D3D12_Submit: the wrappers in the slots are unmapped.
PushSubmit ==
    /\ pcb.state = "recording"
    /\ pushMapped' = [w \in UniformWrappers |->
                         IF \E k \in UniformSlots : pcb.slots[k] = w
                         THEN FALSE ELSE pushMapped[w]]
    /\ pcb' = [pcb EXCEPT !.state = "submitted"]
    /\ lastPush' = NoPush
    /\ UNCHANGED <<pushWrappers, pushWrapperCount, pushPool>>
    /\ UNCHANGED nonPushVars

\* D3D12_INTERNAL_CleanCommandBuffer: every used wrapper goes back to the pool.
PushCleanCommandBuffer ==
    /\ pcb.state = "submitted"
    /\ pushPool' = pushPool \o pcb.used
    /\ pcb' = [pcb EXCEPT !.state = "available", !.used = <<>>]
    /\ lastPush' = NoPush
    /\ UNCHANGED <<pushWrappers, pushMapped, pushWrapperCount>>
    /\ UNCHANGED nonPushVars

InitPush ==
    /\ pushWrappers = [w \in UniformWrappers |->
                          [writeOffset |-> 0, drawOffset |-> 0, currentBlockSize |-> 0]]
    /\ pushMapped = [w \in UniformWrappers |-> FALSE]
    /\ pushWrapperCount = 0
    /\ pushPool = <<>>
    /\ pcb = [state |-> "available", uses |-> 0, commandCount |-> 0,
              slots |-> [k \in UniformSlots |-> NULL], used |-> <<>>]
    /\ lastPush = NoPush

NextPush ==
    \/ PushAcquireCommandBuffer
    \/ \E st \in ShaderStages, i \in 0..(MAX_UNIFORM_BUFFERS_PER_STAGE - 1),
          len \in PushLengths : RecordedPushUniformData(st, i, len)
    \/ PushSubmit
    \/ PushCleanCommandBuffer

(***************************************************************************)
(* The pool of command buffers between two threads                         *)
(*                                                                         *)
(* One thread retires command buffers inside Submit or Wait, holding the   *)
(* submit lock; another acquires command buffers.                          *)
(***************************************************************************)
\* Command buffers the device may allocate.
NumPoolCommandBuffers == 3

PoolCommandBuffers == 1..NumPoolCommandBuffers

CleanerIdle == [pc |-> "idle", commandBuffer |-> NULL]

\* D3D12_AcquireCommandBuffer, under acquireCommandBufferLock: the last
\* available command buffer, after allocating one if there is none.
PoolAcquireCommandBuffer ==
    LET allocate == poolAvailable = <<>>
        available == IF allocate THEN <<poolAllocated + 1>> ELSE poolAvailable
        commandBuffer == available[Len(available)]
    IN  /\ allocate => poolAllocated < NumPoolCommandBuffers
        /\ poolAllocated' = IF allocate THEN poolAllocated + 1 ELSE poolAllocated
        /\ poolAvailable' = SubSeq(available, 1, Len(available) - 1)
        /\ poolAcquired' = poolAcquired \cup {commandBuffer}
        /\ UNCHANGED <<poolSubmitted, cleaner>>
        /\ UNCHANGED nonPoolVars

\* D3D12_Submit, which takes the submit lock, puts the command buffer on the
\* submitted list.
PoolSubmit(commandBuffer) ==
    /\ cleaner.pc = "idle"
    /\ commandBuffer \in poolAcquired
    /\ poolSubmitted' = Append(poolSubmitted, commandBuffer)
    /\ poolAcquired' = poolAcquired \ {commandBuffer}
    /\ UNCHANGED <<poolAllocated, poolAvailable, cleaner>>
    /\ UNCHANGED nonPoolVars

\* D3D12_INTERNAL_CleanCommandBuffer up to the release of
\* acquireCommandBufferLock: the command buffer, whose fence is signalled, is
\* back in the pool.
CleanCommandBuffer_Return(i) ==
    /\ cleaner.pc = "idle"
    /\ i \in 1..Len(poolSubmitted)
    /\ poolAvailable' = Append(poolAvailable, poolSubmitted[i])
    /\ cleaner' = [pc |-> "returned", commandBuffer |-> poolSubmitted[i]]
    /\ UNCHANGED <<poolAllocated, poolSubmitted, poolAcquired>>
    /\ UNCHANGED nonPoolVars

\* The rest of D3D12_INTERNAL_CleanCommandBuffer: the command buffer leaves
\* the submitted list.
CleanCommandBuffer_Remove ==
    /\ cleaner.pc = "returned"
    /\ poolSubmitted' = RemoveSubmitted(poolSubmitted, cleaner.commandBuffer)
    /\ cleaner' = CleanerIdle
    /\ UNCHANGED <<poolAllocated, poolAvailable, poolAcquired>>
    /\ UNCHANGED nonPoolVars

InitPool ==
    /\ poolAllocated = 0
    /\ poolAvailable = <<>>
    /\ poolSubmitted = <<>>
    /\ poolAcquired = {}
    /\ cleaner = CleanerIdle

NextPool ==
    \/ PoolAcquireCommandBuffer
    \/ \E commandBuffer \in PoolCommandBuffers : PoolSubmit(commandBuffer)
    \/ \E i \in 1..NumPoolCommandBuffers : CleanCommandBuffer_Return(i)
    \/ CleanCommandBuffer_Remove

(***************************************************************************)
(* The shared pools and their locks                                        *)
(*                                                                         *)
(* Threads take objects from the pools of available command buffers, of    *)
(* available fences, of uniform buffers and of GPU descriptor heaps, and   *)
(* put them back; every step between taking and releasing a lock is a step *)
(* of its own.                                                             *)
(***************************************************************************)
\* Threads that use the pools.
NumSharedPoolThreads == 2
\* Objects the device may create, all pools together.
MaxPooledObjects == 2

SharedPoolThreadIds == 1..NumSharedPoolThreads
SharedPoolNames ==
    {"availableCommandBuffers", "availableFences", "uniformBufferPool",
     "descriptorHeapPools"}

RECURSIVE SharedPoolObjectCount(_)
\* The objects created so far in the pools of S.
SharedPoolObjectCount(S) ==
    IF S = {} THEN 0
    ELSE LET pool == CHOOSE p \in S : TRUE
         IN  sharedPoolCreated[pool] + SharedPoolObjectCount(S \ {pool})

SharedPoolIdle == [pc |-> "idle", pool |-> "none", object |-> NULL]

\* A lock that never makes a thread wait.
SharedPoolLockIgnored(pool) == TRUE

\* SDL_LockMutex returns when no thread owns the pool's lock.
SharedPoolLockFree(pool) == sharedPoolLocks[pool] = NULL

\* SDL_LockMutex at the start of an acquisition or of a return.
SharedPoolLock(t, pool, operation) ==
    /\ sharedPoolThreads[t].pc = "idle"
    /\ SharedPoolLockFree(pool)
    /\ operation \in {"acquire", "return"}
    /\ operation = "return" => \E o \in 1..MaxPooledObjects : <<pool, o>> \in sharedPoolHeld[t]
    /\ sharedPoolLocks' = [sharedPoolLocks EXCEPT ![pool] = t]
    /\ sharedPoolThreads' =
          [sharedPoolThreads EXCEPT ![t] = [pc |-> operation, pool |-> pool, object |-> NULL]]
    /\ UNCHANGED <<sharedPools, sharedPoolCreated, sharedPoolHeld>>
    /\ UNCHANGED nonSharedPoolVars

\* result = pool[count - 1], or a new object when the pool is empty.
SharedPoolRead(t) ==
    LET pool == sharedPoolThreads[t].pool
        stack == sharedPools[pool]
    IN  /\ sharedPoolThreads[t].pc = "acquire"
        /\ IF Len(stack) > 0
           THEN /\ sharedPoolThreads' =
                     [sharedPoolThreads EXCEPT ![t].pc = "read",
                                               ![t].object = stack[Len(stack)]]
                /\ UNCHANGED sharedPoolCreated
           ELSE /\ SharedPoolObjectCount(SharedPoolNames) < MaxPooledObjects
                /\ sharedPoolCreated' = [sharedPoolCreated EXCEPT ![pool] = @ + 1]
                /\ sharedPoolThreads' =
                     [sharedPoolThreads EXCEPT ![t].pc = "unlock",
                                               ![t].object = sharedPoolCreated[pool] + 1]
        /\ UNCHANGED <<sharedPools, sharedPoolLocks, sharedPoolHeld>>
        /\ UNCHANGED nonSharedPoolVars

\* count -= 1.
SharedPoolPop(t) ==
    LET pool == sharedPoolThreads[t].pool
        stack == sharedPools[pool]
    IN  /\ sharedPoolThreads[t].pc = "read"
        /\ sharedPools' =
              [sharedPools EXCEPT ![pool] =
                  IF Len(stack) > 0 THEN SubSeq(stack, 1, Len(stack) - 1) ELSE stack]
        /\ sharedPoolThreads' = [sharedPoolThreads EXCEPT ![t].pc = "unlock"]
        /\ UNCHANGED <<sharedPoolLocks, sharedPoolCreated, sharedPoolHeld>>
        /\ UNCHANGED nonSharedPoolVars

\* pool[count] = object; count += 1.
SharedPoolPush(t, object) ==
    LET pool == sharedPoolThreads[t].pool
    IN  /\ sharedPoolThreads[t].pc = "return"
        /\ <<pool, object>> \in sharedPoolHeld[t]
        /\ sharedPools' = [sharedPools EXCEPT ![pool] = Append(@, object)]
        /\ sharedPoolHeld' = [sharedPoolHeld EXCEPT ![t] = @ \ {<<pool, object>>}]
        /\ sharedPoolThreads' = [sharedPoolThreads EXCEPT ![t].pc = "unlock"]
        /\ UNCHANGED <<sharedPoolLocks, sharedPoolCreated>>
        /\ UNCHANGED nonSharedPoolVars

\* SDL_UnlockMutex; an acquisition returns its result.
SharedPoolUnlock(t) ==
    LET pool == sharedPoolThreads[t].pool
        object == sharedPoolThreads[t].object
    IN  /\ sharedPoolThreads[t].pc = "unlock"
        /\ sharedPoolLocks' = [sharedPoolLocks EXCEPT ![pool] = NULL]
        /\ sharedPoolHeld' =
              [sharedPoolHeld EXCEPT ![t] =
                  IF object = NULL THEN @ ELSE @ \cup {<<pool, object>>}]
        /\ sharedPoolThreads' = [sharedPoolThreads EXCEPT ![t] = SharedPoolIdle]
        /\ UNCHANGED <<sharedPools, sharedPoolCreated>>
        /\ UNCHANGED nonSharedPoolVars

InitSharedPools ==
    /\ sharedPools = [pool \in SharedPoolNames |-> <<>>]
    /\ sharedPoolLocks = [pool \in SharedPoolNames |-> NULL]
    /\ sharedPoolCreated = [pool \in SharedPoolNames |-> 0]
    /\ sharedPoolThreads = [t \in SharedPoolThreadIds |-> SharedPoolIdle]
    /\ sharedPoolHeld = [t \in SharedPoolThreadIds |-> {}]

NextSharedPools ==
    \/ \E t \in SharedPoolThreadIds, pool \in SharedPoolNames,
          operation \in {"acquire", "return"} : SharedPoolLock(t, pool, operation)
    \/ \E t \in SharedPoolThreadIds : SharedPoolRead(t)
    \/ \E t \in SharedPoolThreadIds : SharedPoolPop(t)
    \/ \E t \in SharedPoolThreadIds, object \in 1..MaxPooledObjects :
          SharedPoolPush(t, object)
    \/ \E t \in SharedPoolThreadIds : SharedPoolUnlock(t)

(***************************************************************************)
(* Texture downloads through a temporary buffer                            *)
(*                                                                         *)
(* Buffers are sequences of bytes; a byte of the texture region is the     *)
(* triple <<slice, row, column>> it comes from, so that every byte of the  *)
(* region is different from every other and from the bytes the buffers     *)
(* start with.  The two alignments of D3D12 (256 and 512) are scaled down. *)
(***************************************************************************)
\* D3D12_TEXTURE_DATA_PITCH_ALIGNMENT, scaled down from 256.
TextureDataPitchAlignment == 4
\* D3D12_TEXTURE_DATA_PLACEMENT_ALIGNMENT, scaled down from 512.
TextureDataPlacementAlignment == 8
\* Largest row pitch, in bytes, of a downloaded region.
MaxRowPitch == 4
\* Largest height and depth of a downloaded region.
MaxDownloadHeight == 2
MaxDownloadDepth == 2
\* Size of the destination transfer buffer.
TransferBufferSize == 24
\* Downloads one run records.
MaxDownloads == 2

DownloadOffsets == {0, 1, TextureDataPlacementAlignment}
PaddingByte == <<-1, -1, -1>>
StaleByte == <<-2, -2, -2>>

NoTextureDownload ==
    [temporary |-> FALSE, bufferOffset |-> 0, height |-> 0, depth |-> 0,
     bytesPerRow |-> 0, bytesPerDepthSlice |-> 0, alignedBytesPerRow |-> 0]

\* D3D12_DownloadFromTexture: rowPitch is what BytesPerRow gives for the
\* region; imageHeight 0 stands for the region's height.
D3D12_DownloadFromTexture(rowPitch, h, d, imageHeight, offset) ==
    LET rowsPerSlice == IF imageHeight = 0 THEN h ELSE imageHeight
        alignedRowPitch == D3D12_INTERNAL_Align(rowPitch, TextureDataPitchAlignment)
        needsRealignment == rowsPerSlice # h \/ rowPitch # alignedRowPitch
        needsPlacementCopy == offset % TextureDataPlacementAlignment # 0
    IN  /\ downloadPc \in {"idle", "retired"}
        /\ downloadCount < MaxDownloads
        /\ offset + rowPitch * rowsPerSlice * d <= TransferBufferSize
        /\ downloadPc' = "recorded"
        /\ downloadCount' = downloadCount + 1
        /\ textureDownload' =
              [temporary |-> needsRealignment \/ needsPlacementCopy,
               bufferOffset |-> offset,
               height |-> rowsPerSlice,
               depth |-> d,
               bytesPerRow |-> rowPitch,
               bytesPerDepthSlice |-> rowPitch * rowsPerSlice,
               alignedBytesPerRow |-> alignedRowPitch]
        /\ temporaryBufferBytes' =
              IF needsRealignment \/ needsPlacementCopy
              THEN [i \in 1..(alignedRowPitch * rowsPerSlice * d) |-> PaddingByte]
              ELSE <<>>
        /\ UNCHANGED destinationBufferBytes
        /\ UNCHANGED nonDownloadVars

\* What ID3D12GraphicsCommandList_CopyTextureRegion leaves at byte `at` of a
\* placed footprint: rows RowPitch apart, slices RowPitch * Height apart.
PlacedFootprintByte(at, download, before) ==
    LET column == at % download.alignedBytesPerRow
        row == (at \div download.alignedBytesPerRow) % download.height
        slice == at \div (download.alignedBytesPerRow * download.height)
    IN  IF column < download.bytesPerRow THEN <<slice, row, column>> ELSE before

\* The GPU executes the copy of the command buffer.
ExecuteCopyTextureRegion ==
    LET download == textureDownload
        size == download.alignedBytesPerRow * download.height * download.depth
    IN  /\ downloadPc = "recorded"
        /\ downloadPc' = "executed"
        /\ IF download.temporary
           THEN /\ temporaryBufferBytes' =
                     [i \in 1..size |->
                         PlacedFootprintByte(i - 1, download, temporaryBufferBytes[i])]
                /\ UNCHANGED destinationBufferBytes
           ELSE /\ destinationBufferBytes' =
                     [i \in 1..TransferBufferSize |->
                         IF /\ i - 1 >= download.bufferOffset
                            /\ i - 1 < download.bufferOffset + size
                         THEN PlacedFootprintByte(i - 1 - download.bufferOffset, download,
                                                  destinationBufferBytes[i])
                         ELSE destinationBufferBytes[i]]
                /\ UNCHANGED temporaryBufferBytes
        /\ UNCHANGED <<downloadCount, textureDownload>>
        /\ UNCHANGED nonDownloadVars

\* The offset in the temporary buffer the row copy reads from.
DownloadSourceOffset(download, sliceIndex, rowIndex) ==
    (sliceIndex * download.height) + (rowIndex * download.alignedBytesPerRow)

\* The offset in the destination buffer the row copy writes to.
DownloadDestinationOffset(download, sliceIndex, rowIndex) ==
    download.bufferOffset + (sliceIndex * download.bytesPerDepthSlice)
        + (rowIndex * download.bytesPerRow)

\* D3D12_INTERNAL_CopyTextureDownload: one SDL_memcpy of bytesPerRow bytes
\* for every slice and row.
D3D12_INTERNAL_CopyTextureDownload(download, sourcePtr, destPtr) ==
    [i \in 1..Len(destPtr) |->
        LET rows == {<<sliceIndex, rowIndex>> \in
                        (0..(download.depth - 1)) \X (0..(download.height - 1)) :
                        /\ i - 1 >= DownloadDestinationOffset(download, sliceIndex, rowIndex)
                        /\ i - 1 < DownloadDestinationOffset(download, sliceIndex, rowIndex)
                                     + download.bytesPerRow}
        IN  IF rows = {} THEN destPtr[i]
            ELSE LET row == CHOOSE x \in rows : TRUE
                 IN  sourcePtr[DownloadSourceOffset(download, row[1], row[2])
                                 + (i - 1 - DownloadDestinationOffset(download, row[1], row[2]))
                                 + 1]]

\* D3D12_INTERNAL_CleanCommandBuffer performs the deferred copies.
DownloadCleanCommandBuffer ==
    /\ downloadPc = "executed"
    /\ downloadPc' = "retired"
    /\ destinationBufferBytes' =
          IF textureDownload.temporary
          THEN D3D12_INTERNAL_CopyTextureDownload(
                   textureDownload, temporaryBufferBytes, destinationBufferBytes)
          ELSE destinationBufferBytes
    /\ UNCHANGED <<downloadCount, textureDownload, temporaryBufferBytes>>
    /\ UNCHANGED nonDownloadVars

InitDownload ==
    /\ downloadPc = "idle"
    /\ downloadCount = 0
    /\ textureDownload = NoTextureDownload
    /\ temporaryBufferBytes = <<>>
    /\ destinationBufferBytes = [i \in 1..TransferBufferSize |-> StaleByte]

NextDownload ==
    \/ \E rowPitch \in 1..MaxRowPitch, h \in 1..MaxDownloadHeight,
          d \in 1..MaxDownloadDepth, imageHeight \in {0}, offset \in DownloadOffsets :
          D3D12_DownloadFromTexture(rowPitch, h, d, imageHeight, offset)
    \/ ExecuteCopyTextureRegion
    \/ DownloadCleanCommandBuffer

(***************************************************************************)
(* The colour attachment of a blit                                         *)
(***************************************************************************)
\* Largest width, height or depth of a texture.
MaxExtent == 2
\* Largest layer count or level count of a texture.
MaxLayers == 2

\* header.info of the destination texture container.
TextureCreateInfos ==
    [layerCount : 1..MaxLayers, levelCount : 1..MaxLayers,
     width : 1..MaxExtent, height : 1..MaxExtent, depth : 1..MaxExtent]

\* The extent of a region inside a texture.
TextureRegions(info) ==
    [w : 1..info.width, h : 1..info.height, d : 1..info.depth]

NoBlit ==
    [destinationTextureCreateInfo |->
         [layerCount |-> 1, levelCount |-> 1, width |-> 1, height |-> 1, depth |-> 1],
     destination |-> [w |-> 1, h |-> 1, d |-> 1],
     loadOp |-> "NONE"]

\* A blit that always loads the destination.
BlitAlwaysLoads(destinationTextureCreateInfo, destination) == "LOAD"

\* colorAttachmentInfo.loadOp of the render pass D3D12_Blit begins.
BlitLoadOp(destinationTextureCreateInfo, destination) ==
    IF /\ destinationTextureCreateInfo.layerCount = 1
       /\ destinationTextureCreateInfo.levelCount = 1
       /\ destination.w = destinationTextureCreateInfo.width
       /\ destination.h = destinationTextureCreateInfo.height
       /\ destination.d = destinationTextureCreateInfo.depth
    THEN "DONT_CARE"
    ELSE "LOAD"

\* D3D12_Blit fills in the colour attachment of its render pass.
BlitColorAttachment(destinationTextureCreateInfo, destination) ==
    /\ lastBlit' = [destinationTextureCreateInfo |-> destinationTextureCreateInfo,
                    destination |-> destination,
                    loadOp |-> BlitLoadOp(destinationTextureCreateInfo, destination)]
    /\ UNCHANGED nonBlitVars

\* header.info of the texture containers a blit writes to: one layer, one
\* level, the largest extent.
DestinationCreateInfo ==
    [layerCount |-> 1, levelCount |-> 1,
     width |-> MaxExtent, height |-> MaxExtent, depth |-> 1]

\* D3D12_BindFragmentSamplers tracks every sub-resource of the bound texture.
RECURSIVE TrackTextureSubresources(_, _, _)
TrackTextureSubresources(W, t, S) ==
    IF S = {} THEN W
    ELSE TrackTextureSubresources(
             D3D12_INTERNAL_TrackTextureSubresource(W, <<t, SetMin(S)>>),
             t, S \ {SetMin(S)})

\* Commands the command buffer records when blits and uploads are explored.
MaxTransferCommands == 2

\* D3D12_Blit from the source container, of sourceLayerCount layers and depth
\* 1, to a region of the destination container c.
D3D12_Blit(cb, source, sourceLayerCount, c, destination, blitCycle, honoured) ==
    LET loadOp == BlitLoadOp(DestinationCreateInfo, destination)
        cycle == IF loadOp = "LOAD" THEN FALSE ELSE blitCycle
        W1 == D3D12_INTERNAL_PrepareTextureSubresourceForWrite(
                  World(cb), c, 0, cycle, "RENDER_TARGET", honoured)
        sub == W1.ret
        W2 == [W1 EXCEPT !.cb.colorAttachmentTextureSubresources = sub,
                         !.cb.pass = "render"]
        W3 == D3D12_INTERNAL_TrackTextureSubresource(W2, sub)
        \* D3D12_BindFragmentSamplers
        W4 == TrackTextureSubresources(
                  W3, W3.tc[source].activeTexture, SubresourcesOf(source))
        \* D3D12_EndRenderPass
        W5 == [W4 EXCEPT
                 !.tx = D3D12_INTERNAL_TextureSubresourceTransitionToDefaultUsage(
                            W4.tx, "RENDER_TARGET", sub, honoured),
                 !.cb.colorAttachmentTextureSubresources = NoSubresource,
                 !.cb.pass = "none"]
    IN  /\ ResourceRecording(cb)
        /\ rcb[cb].pass = "none"
        /\ "COLOR_TARGET" \in TextureUsageFlags(c)
        /\ "SAMPLER" \in TextureUsageFlags(source)
        /\ sourceLayerCount \in 1..Cardinality(SubresourcesOf(source))
        /\ TextureCycleFeasible(c, 0, cycle)
        /\ CommitWorld(IF sourceLayerCount = 1 THEN W5 ELSE W3, cb)
        /\ lastPrepare' = PrepareRecord("texture", c, cycle,
                              textureContainers[c].activeTexture, sub[1],
                              W1.tx[sub[1]].subresources[0].referenceCount)
        /\ passTouched' = [textures |-> {sub}, buffers |-> {}]
        /\ UNCHANGED nonResourceVars

InitBlit == lastBlit = NoBlit

NextTransfer ==
    \/ AcquireCommandBufferResources(PassCommandBuffer)
    \/ \E c \in UploadTargets, cycle \in BOOLEAN, temporaryBuffer \in BOOLEAN,
          honoured \in BOOLEAN :
          \E s \in SubresourcesOf(c) :
              /\ rcb[PassCommandBuffer].commandCount < MaxTransferCommands
              /\ D3D12_UploadToTextureVia(
                     PassCommandBuffer, c, s, cycle, temporaryBuffer, honoured)
    \/ \E source \in TextureContainerIds, sourceLayerCount \in 1..MaxLayers,
          c \in RenderTargets, destination \in TextureRegions(DestinationCreateInfo),
          cycle \in BOOLEAN, honoured \in BOOLEAN :
              /\ rcb[PassCommandBuffer].commandCount < MaxTransferCommands
              /\ D3D12_Blit(PassCommandBuffer, source, sourceLayerCount, c,
                            destination, cycle, honoured)
    \/ SubmitResources(PassCommandBuffer)
    \/ CleanCommandBufferResources(PassCommandBuffer)

NextBlit ==
    \E info \in TextureCreateInfos : \E destination \in TextureRegions(info) :
        BlitColorAttachment(info, destination)

(***************************************************************************)
(* The depth-stencil attachment of a render pass                           *)
(***************************************************************************)
\* Largest depth or stencil value a texel or a clear value takes.
MaxDepthValue == 1

DepthValues == 0..MaxDepthValue
DepthStencilLoadOps == {"LOAD", "CLEAR", "DONT_CARE"}
ClearFlags == {"DEPTH", "STENCIL"}

NoDepthStencilPass ==
    [inProgress |-> FALSE, loadOp |-> "LOAD", stencilLoadOp |-> "LOAD",
     depthStencilClearValue |-> [depth |-> 0, stencil |-> 0]]

\* The clear flags D3D12_BeginRenderPass passes to ClearDepthStencilView;
\* the empty set when it does not call it.
DepthStencilClearFlags(depthStencilAttachmentInfo) ==
    IF \/ depthStencilAttachmentInfo.loadOp = "LOAD"
       \/ depthStencilAttachmentInfo.stencilLoadOp = "LOAD"
    THEN (IF depthStencilAttachmentInfo.loadOp = "LOAD" THEN {"DEPTH"} ELSE {})
             \cup (IF depthStencilAttachmentInfo.stencilLoadOp = "LOAD"
                   THEN {"STENCIL"} ELSE {})
    ELSE {}

\* ID3D12GraphicsCommandList::ClearDepthStencilView.
ClearDepthStencilView(texture, clearFlags, depth, stencil) ==
    [depth   |-> IF "DEPTH" \in clearFlags THEN depth ELSE texture.depth,
     stencil |-> IF "STENCIL" \in clearFlags THEN stencil ELSE texture.stencil]

\* D3D12_BeginRenderPass with a depth-stencil attachment.
BeginRenderPassDepthStencil(depthStencilAttachmentInfo) ==
    LET clearFlags == DepthStencilClearFlags(depthStencilAttachmentInfo)
    IN  /\ ~depthStencilPass.inProgress
        /\ depthStencilTexture' =
              IF clearFlags # {}
              THEN ClearDepthStencilView(
                       depthStencilTexture, clearFlags,
                       depthStencilAttachmentInfo.depthStencilClearValue.depth,
                       depthStencilAttachmentInfo.depthStencilClearValue.stencil)
              ELSE depthStencilTexture
        /\ depthStencilPass' =
              [inProgress |-> TRUE,
               loadOp |-> depthStencilAttachmentInfo.loadOp,
               stencilLoadOp |-> depthStencilAttachmentInfo.stencilLoadOp,
               depthStencilClearValue |-> depthStencilAttachmentInfo.depthStencilClearValue]
        /\ UNCHANGED nonDepthStencilVars

\* A draw of the pass writes depth and stencil values.
DrawDepthStencil(depth, stencil) ==
    /\ depthStencilPass.inProgress
    /\ depthStencilTexture' = [depth |-> depth, stencil |-> stencil]
    /\ UNCHANGED depthStencilPass
    /\ UNCHANGED nonDepthStencilVars

EndRenderPassDepthStencil ==
    /\ depthStencilPass.inProgress
    /\ depthStencilPass' = NoDepthStencilPass
    /\ UNCHANGED depthStencilTexture
    /\ UNCHANGED nonDepthStencilVars

InitDepthStencil ==
    /\ depthStencilTexture = [depth |-> 0, stencil |-> 0]
    /\ depthStencilPass = NoDepthStencilPass

NextDepthStencil ==
    \/ \E loadOp \in DepthStencilLoadOps, stencilLoadOp \in DepthStencilLoadOps,
          depth \in DepthValues, stencil \in DepthValues :
          BeginRenderPassDepthStencil(
              [loadOp |-> loadOp, stencilLoadOp |-> stencilLoadOp,
               depthStencilClearValue |-> [depth |-> depth, stencil |-> stencil]])
    \/ \E depth \in DepthValues, stencil \in DepthValues :
          DrawDepthStencil(depth, stencil)
    \/ EndRenderPassDepthStencil

(***************************************************************************)
(* The pools of GPU descriptor heaps                                       *)
(***************************************************************************)
\* Command buffers that take GPU descriptor heaps.
NumHeapCommandBuffers == 2
\* Heaps each pool is created with (scaled down).
InitialGpuHeaps == 1
\* GPU descriptor heaps of one type the device may create.
MaxGpuHeaps == 3
\* Descriptors one command buffer writes into a heap.
MaxGpuDescriptors == 3
\* VIEW_GPU_DESCRIPTOR_COUNT and SAMPLER_GPU_DESCRIPTOR_COUNT, scaled down.
ViewGpuDescriptorCount == 2
SamplerGpuDescriptorCount == 1

HeapCommandBuffers == 1..NumHeapCommandBuffers
GpuHeapTypes == {"CBV_SRV_UAV", "SAMPLER"}
GpuHeapIds == 1..MaxGpuHeaps

\* The heaps and their pools as one value; ret is a helper's result.
GpuHeapState ==
    [heaps |-> gpuHeaps, count |-> gpuHeapCount, pools |-> descriptorHeapPools,
     ret |-> NULL]

\* An acquisition that leaves the heap it hands out in the pool.
AcquireDescriptorHeapLeavesPool(H, descriptorHeapType, created) ==
    LET pool == H.pools[descriptorHeapType]
    IN  IF Len(pool) > 0 THEN [H EXCEPT !.ret = pool[Len(pool)]]
        ELSE [H EXCEPT !.ret = NULL]

\* The descriptor count a GPU heap of the type is created with.
GpuDescriptorCount(descriptorHeapType) ==
    IF descriptorHeapType = "CBV_SRV_UAV"
    THEN ViewGpuDescriptorCount ELSE SamplerGpuDescriptorCount

\* created: D3D12_INTERNAL_CreateDescriptorHeap succeeds.
D3D12_INTERNAL_AcquireDescriptorHeapFromPool(H, descriptorHeapType, created) ==
    LET pool == H.pools[descriptorHeapType]
        fresh == H.count[descriptorHeapType] + 1
    IN  IF Len(pool) > 0
        THEN [H EXCEPT !.pools[descriptorHeapType] = SubSeq(pool, 1, Len(pool) - 1),
                       !.ret = pool[Len(pool)]]
        ELSE IF created
        THEN [H EXCEPT !.count[descriptorHeapType] = fresh,
                       !.heaps[descriptorHeapType][fresh] = 0,
                       !.ret = fresh]
        ELSE [H EXCEPT !.ret = NULL]

\* A return that leaves the heap's cursor where its last user left it.
ReturnDescriptorHeapKeepsCursor(H, heapType, heap) ==
    [H EXCEPT !.pools[heapType] = Append(@, heap)]

D3D12_INTERNAL_ReturnDescriptorHeapToPool(H, heapType, heap) ==
    [H EXCEPT !.heaps[heapType][heap] = 0,
              !.pools[heapType] = Append(@, heap)]

CommitGpuHeapState(H) ==
    /\ gpuHeaps' = H.heaps
    /\ gpuHeapCount' = H.count
    /\ descriptorHeapPools' = H.pools
    /\ UNCHANGED nonGpuHeapVars

\* D3D12_AcquireCommandBuffer: the command buffer takes a heap of each type;
\* when it gets none it is destroyed.
HeapAcquireCommandBuffer(cb, createdView, createdSampler) ==
    LET H1 == D3D12_INTERNAL_AcquireDescriptorHeapFromPool(
                  GpuHeapState, "CBV_SRV_UAV", createdView)
        H2 == D3D12_INTERNAL_AcquireDescriptorHeapFromPool(
                  H1, "SAMPLER", createdSampler)
    IN  /\ hcb[cb].state = "available"
        /\ \A type \in GpuHeapTypes :
              Len(descriptorHeapPools[type]) = 0 => gpuHeapCount[type] < MaxGpuHeaps
        /\ IF H1.ret = NULL
           THEN /\ CommitGpuHeapState(H1)
                /\ hcb' = [hcb EXCEPT ![cb].state = "destroyed"]
           ELSE IF H2.ret = NULL
           THEN /\ CommitGpuHeapState(H2)
                /\ hcb' = [hcb EXCEPT ![cb].state = "destroyed",
                                      ![cb].gpuDescriptorHeaps["CBV_SRV_UAV"] = H1.ret]
           ELSE /\ CommitGpuHeapState(H2)
                /\ hcb' = [hcb EXCEPT
                              ![cb].state = "recording",
                              ![cb].gpuDescriptorHeaps =
                                  [type \in GpuHeapTypes |->
                                      IF type = "CBV_SRV_UAV" THEN H1.ret ELSE H2.ret]]

\* D3D12_INTERNAL_WriteGPUDescriptors with one descriptor.
HeapWriteGPUDescriptors(cb, heapType) ==
    LET heap == hcb[cb].gpuDescriptorHeaps[heapType]
    IN  /\ hcb[cb].state = "recording"
        /\ gpuHeaps[heapType][heap] < MaxGpuDescriptors
        /\ gpuHeaps' = [gpuHeaps EXCEPT ![heapType][heap] = @ + 1]
        /\ UNCHANGED <<gpuHeapCount, descriptorHeapPools, hcb>>
        /\ UNCHANGED nonGpuHeapVars

HeapSubmit(cb) ==
    /\ hcb[cb].state = "recording"
    /\ hcb' = [hcb EXCEPT ![cb].state = "submitted"]
    /\ UNCHANGED <<gpuHeaps, gpuHeapCount, descriptorHeapPools>>
    /\ UNCHANGED nonGpuHeapVars

\* D3D12_INTERNAL_CleanCommandBuffer: both heaps go back to their pools.
HeapCleanCommandBuffer(cb) ==
    LET H1 == D3D12_INTERNAL_ReturnDescriptorHeapToPool(
                  GpuHeapState, "CBV_SRV_UAV", hcb[cb].gpuDescriptorHeaps["CBV_SRV_UAV"])
        H2 == D3D12_INTERNAL_ReturnDescriptorHeapToPool(
                  H1, "SAMPLER", hcb[cb].gpuDescriptorHeaps["SAMPLER"])
    IN  /\ hcb[cb].state = "submitted"
        /\ CommitGpuHeapState(H2)
        /\ hcb' = [hcb EXCEPT ![cb].state = "available"]

InitGpuHeaps ==
    /\ gpuHeaps = [type \in GpuHeapTypes |-> [h \in GpuHeapIds |-> 0]]
    /\ gpuHeapCount = [type \in GpuHeapTypes |-> InitialGpuHeaps]
    /\ descriptorHeapPools =
          [type \in GpuHeapTypes |-> [j \in 1..InitialGpuHeaps |-> j]]
    /\ hcb = [cb \in HeapCommandBuffers |->
                 [state |-> "available",
                  gpuDescriptorHeaps |-> [type \in GpuHeapTypes |-> NULL]]]

NextGpuHeaps ==
    \/ \E cb \in HeapCommandBuffers, createdView \in BOOLEAN, createdSampler \in BOOLEAN :
          HeapAcquireCommandBuffer(cb, createdView, createdSampler)
    \/ \E cb \in HeapCommandBuffers, type \in GpuHeapTypes :
          HeapWriteGPUDescriptors(cb, type)
    \/ \E cb \in HeapCommandBuffers : HeapSubmit(cb)
    \/ \E cb \in HeapCommandBuffers : HeapCleanCommandBuffer(cb)

(***************************************************************************)
(* The submit lock                                                         *)
(*                                                                         *)
(* Several threads call Submit, Wait and WaitForFences.  Each call is      *)
(* split at SDL_LockMutex(renderer->submitLock), where a thread waits for  *)
(* the lock, and where it blocks on a fence event.  A thread that still    *)
(* owns the lock when it is in no call makes no further call.              *)
(***************************************************************************)
\* Threads that call the device.
NumLockThreads == 3

LockThreadIds == 1..NumLockThreads
LockedOperations == {"Submit", "Wait", "WaitForFences"}
\* What ID3D12Fence_SetEventOnCompletion answers.
HResults == {"S_OK", "E_FAIL"}
FAILED(res) == res # "S_OK"

\* A thread enters one of the calls; the fence WaitForFences is given may have
\* completed already, the fence Wait acquires has not.
LockedCall(t, op, completedValue) ==
    /\ lockThreads[t].pc = "idle"
    /\ submitLock # t
    /\ op = "Wait" => completedValue = D3D12_FENCE_UNSIGNALED_VALUE
    /\ lockThreads' = [lockThreads EXCEPT ![t] = [op |-> op, pc |-> "SDL_LockMutex"]]
    /\ lockFenceValue' = [lockFenceValue EXCEPT ![t] = completedValue]
    /\ UNCHANGED submitLock
    /\ UNCHANGED nonLockVars

SDL_LockMutex(t) ==
    /\ lockThreads[t].pc = "SDL_LockMutex"
    /\ submitLock = NULL
    /\ submitLock' = t
    /\ lockThreads' = [lockThreads EXCEPT ![t].pc = "locked"]
    /\ UNCHANGED lockFenceValue
    /\ UNCHANGED nonLockVars

\* The thread leaves its call by the SDL_UnlockMutex at the call's end.
SDL_UnlockMutex(t) ==
    /\ submitLock' = NULL
    /\ lockThreads' = [lockThreads EXCEPT ![t].pc = "idle"]
    /\ UNCHANGED lockFenceValue
    /\ UNCHANGED nonLockVars

\* The thread leaves its call by a return statement.
ReturnFromCall(t) ==
    /\ lockThreads' = [lockThreads EXCEPT ![t].pc = "idle"]
    /\ UNCHANGED <<submitLock, lockFenceValue>>
    /\ UNCHANGED nonLockVars

\* D3D12_Submit under the lock: none of its checks returns.
D3D12_Submit_Locked(t) ==
    /\ lockThreads[t] = [op |-> "Submit", pc |-> "locked"]
    /\ SDL_UnlockMutex(t)

\* D3D12_Wait under the lock, up to WaitForSingleObject; res is the answer of
\* ID3D12Fence_SetEventOnCompletion.
D3D12_Wait_Locked(t, res) ==
    /\ lockThreads[t] = [op |-> "Wait", pc |-> "locked"]
    /\ IF lockFenceValue[t] = D3D12_FENCE_SIGNAL_VALUE
       THEN SDL_UnlockMutex(t)
       ELSE IF FAILED(res)
       THEN ReturnFromCall(t)
       ELSE /\ lockThreads' = [lockThreads EXCEPT ![t].pc = "WaitForSingleObject"]
            /\ UNCHANGED <<submitLock, lockFenceValue>>
            /\ UNCHANGED nonLockVars

\* D3D12_WaitForFences under the lock, up to WaitForMultipleObjects.
D3D12_WaitForFences_Locked(t, res) ==
    /\ lockThreads[t] = [op |-> "WaitForFences", pc |-> "locked"]
    /\ IF FAILED(res)
       THEN ReturnFromCall(t)
       ELSE /\ lockThreads' = [lockThreads EXCEPT ![t].pc = "WaitForMultipleObjects"]
            /\ UNCHANGED <<submitLock, lockFenceValue>>
            /\ UNCHANGED nonLockVars

\* The wait on the fence's event returns, and the call runs to its end.
LockedWait_Return(t) ==
    /\ lockThreads[t].pc \in {"WaitForSingleObject", "WaitForMultipleObjects"}
    /\ lockFenceValue[t] = D3D12_FENCE_SIGNAL_VALUE
    /\ SDL_UnlockMutex(t)

\* The GPU reaches the signal of the fence the thread's call waits on.
LockedFenceSignalled(t) ==
    /\ lockThreads[t].pc # "idle"
    /\ lockFenceValue[t] = D3D12_FENCE_UNSIGNALED_VALUE
    /\ lockFenceValue' = [lockFenceValue EXCEPT ![t] = D3D12_FENCE_SIGNAL_VALUE]
    /\ UNCHANGED <<submitLock, lockThreads>>
    /\ UNCHANGED nonLockVars

InitLock ==
    /\ submitLock = NULL
    /\ lockThreads = [t \in LockThreadIds |-> [op |-> "none", pc |-> "idle"]]
    /\ lockFenceValue = [t \in LockThreadIds |-> D3D12_FENCE_UNSIGNALED_VALUE]

NextLock ==
    \/ \E t \in LockThreadIds, op \in LockedOperations,
          completedValue \in {D3D12_FENCE_UNSIGNALED_VALUE, D3D12_FENCE_SIGNAL_VALUE} :
          LockedCall(t, op, completedValue)
    \/ \E t \in LockThreadIds : SDL_LockMutex(t)
    \/ \E t \in LockThreadIds : D3D12_Submit_Locked(t)
    \/ \E t \in LockThreadIds, res \in HResults : D3D12_Wait_Locked(t, res)
    \/ \E t \in LockThreadIds, res \in HResults : D3D12_WaitForFences_Locked(t, res)
    \/ \E t \in LockThreadIds : LockedWait_Return(t)
    \/ \E t \in LockThreadIds : LockedFenceSignalled(t)

Init ==
    /\ InitLock
    /\ InitPush
    /\ InitDownload
    /\ InitSharedPools
    /\ InitPool
    /\ InitBlit
    /\ InitDepthStencil
    /\ InitGpuHeaps
    /\ InitWrappers
    /\ InitUniform
    /\ InitResources
    /\ InitHeap
    /\ InitFences
    /\ InitWindow
    /\ InitConcurrent
    /\ InitDestroy

SpecUniform == Init /\ [][NextUniform]_vars

\* C1: every recorded draw reads, from each uniform slot, the payload of the most
\* recent push to that slot that preceded the draw, for as long as the command
\* buffer is not retired.
C1_DrawReadsLastPush ==
    \A i \in 1..Len(draws) : \A k \in UniformSlots :
        draws[i].expect[k] # 0 =>
            uniformMemory[draws[i].cbv[k][1]][draws[i].cbv[k][2] \div 256]
                = draws[i].expect[k]

SpecCycle == Init /\ [][NextCycle]_vars

SpecPass == Init /\ [][NextPass]_vars

\* C7: once a render or compute pass has ended, every sub-resource and buffer
\* the pass touched is in the default state of its container, including a
\* resource that another bind replaced in its slot during the pass.
C7_TouchedResourcesBackInDefaultState ==
    (\A cb \in ResourceCommandBuffers : rcb[cb].pass = "none") =>
        /\ \A sub \in passTouched.textures :
              textures[sub[1]].subresources[sub[2]].state
                  = TextureDefaultState(textures, sub[1])
        /\ \A b \in passTouched.buffers :
              buffers[b].state = BufferDefaultState(buffers, b)

SpecHeap == Init /\ [][NextHeap]_vars

\* Slots of the staging heap held by a descriptor that was assigned one and has
\* not released it (an assignment that found the heap exhausted got no slot).
LiveSlots ==
    {cpuDescriptors[d].cpuHandleIndex :
        d \in {x \in CpuDescriptorIds :
                  /\ cpuDescriptors[x].heap # NULL
                  /\ cpuDescriptors[x].cpuHandleIndex # SDL_MAX_UINT32}}

FreeSlots ==
    {stagingDescriptorHeap.inactiveDescriptorIndices[i] :
        i \in 1..Len(stagingDescriptorHeap.inactiveDescriptorIndices)}

\* C8: the slots below the cursor are exactly the live slots together with the
\* slots on the free list; the free list holds no slot twice and no live slot.
C8_SlotsPartition ==
    LET free == stagingDescriptorHeap.inactiveDescriptorIndices
    IN  /\ LiveSlots \cup FreeSlots = 0..(stagingDescriptorHeap.currentDescriptorIndex - 1)
        /\ LiveSlots \cap FreeSlots = {}
        /\ \A i, j \in 1..Len(free) : i # j => free[i] # free[j]

Spec == Init /\ [][Next]_vars

\* The GPU keeps taking entries from the command queue while it holds any.
FairSpec == Spec /\ WF_vars(GpuStep)

SpecPresent == Init /\ [][NextPresent]_vars

SpecWindow == Init /\ [][NextWindow]_vars

SpecConcurrent == Init /\ [][NextConcurrent]_vars

SpecDestroy == Init /\ [][NextDestroy]_vars
SpecFrame == Init /\ [][NextFrame]_vars
SpecLock == Init /\ [][NextLock]_vars
SpecGpuHeaps == Init /\ [][NextGpuHeaps]_vars
SpecBlit == Init /\ [][NextBlit]_vars
SpecPush == Init /\ [][NextPush]_vars
SpecDownload == Init /\ [][NextDownload]_vars
SpecSharedPools == Init /\ [][NextSharedPools]_vars
SpecPool == Init /\ [][NextPool]_vars
SpecTransfer == Init /\ [][NextTransfer]_vars
SpecDepthStencil == Init /\ [][NextDepthStencil]_vars
SpecWrappers == Init /\ [][NextWrappers]_vars

\* C3: a call retires a submitted command buffer only when the fence of the
\* command buffer's submission reads the signalled value 1.
C3_RetiredOnlyWhenSignalled ==
    \A r \in lastCall.retired : r.value = D3D12_FENCE_SIGNAL_VALUE

\* C4: once a command buffer is submitted, the fence of its submission
\* eventually reads as signalled, given that the GPU keeps making progress.
C4_SubmittedFenceEventuallySignalled ==
    \A c \in CommandBufferIds : \A f \in FenceIds :
        (commandBuffers[c].state = "submitted" /\ commandBuffers[c].inFlightFence = f)
            ~> D3D12_QueryFence(Renderer, f)

C4_Witness ==
    \E c \in CommandBufferIds :
        /\ commandBuffers[c].state = "submitted"
        /\ D3D12_QueryFence(Renderer, commandBuffers[c].inFlightFence)

InFencePool(fence) ==
    \E i \in 1..Len(availableFences) : availableFences[i] = fence

C6_AtMostKPresentingUnretired ==
    Cardinality({c \in CommandBufferIds :
                    /\ commandBuffers[c].state \in {"recording", "submitted"}
                    /\ commandBuffers[c].presentDataCount > 0})
        <= MAX_FRAMES_IN_FLIGHT

\* C9: when Wait returns, the GPU has executed every command list submitted
\* before the call.
C9_WaitReturnsWhenIdle == lastCall.op = "Wait" => lastCall.idle

\* C10: when WaitForFences returns, its wait condition is met: every fence
\* supplied reads as signalled with waitAll, at least one without.
C10_WaitForFencesConditionMet == lastCall.op = "WaitForFences" => lastCall.met

\* C11: in MAILBOX or IMMEDIATE mode AcquireSwapchainTexture returns NULL
\* whenever the ring's current slot is owned by an earlier acquisition that has
\* not completed: one whose command buffer is not submitted yet, or one whose
\* fence is not signalled yet.
C11_OwnedSlotAcquireReturnsNull ==
    (/\ lastCall.op = "AcquireSwapchainTexture"
     /\ lastCall.presentMode # "VSYNC"
     /\ lastCall.owned)
        => lastCall.ret = "NULL"

\* The thread waits on the event of a fence the GPU has not signalled.
BlockedOnFence ==
    \/ thread.op = "WaitForSingleObject"
           /\ \E f \in thread.pFences : ~fences[f].event
    \/ thread.op \in {"WaitForFences", "AcquireSwapchainTexture"}
           /\ \E f \in thread.pFences : ~fences[f].event

\* C12: only Wait, WaitForFences and AcquireSwapchainTexture in VSYNC mode
\* block on a fence; a thread inside SetSwapchainParameters or UnclaimWindow
\* never waits for the GPU.
C12_OnlyWaitingOperationsBlock == BlockedOnFence => caller.op = "none"

\* C13: when SetSwapchainParameters returns false, the window's native
\* swapchain, back-buffer texture containers, present mode and composition are
\* what they were before the call.
C13_FailedChangeKeepsSwapchain ==
    (lastCall.op = "SetSwapchainParameters" /\ lastCall.ret = FALSE)
        => /\ windowData.swapchain = lastCall.before.swapchain
           /\ windowData.textureContainers = lastCall.before.textureContainers
           /\ windowData.presentMode = lastCall.before.presentMode
           /\ windowData.swapchainComposition = lastCall.before.swapchainComposition

\* C14: the fence SubmitAndAcquireFence returns for a command buffer is the
\* fence signalled for that command buffer's own submission, whatever other
\* threads acquire, submit and retire while the call is in progress.
C14_ReturnsFenceOfOwnSubmission ==
    fenceCall.op = "SubmitAndAcquireFence"
        => commandBuffers[fenceCall.commandBuffer].inFlightFence = fenceCall.fence

\* C15: every CPU descriptor either has no heap or holds a slot of its heap
\* that is allocated: below the heap's cursor and not in its free list.  A
\* descriptor an exhausted heap could not serve is one with no heap.
C15_DescriptorHoldsAllocatedSlot ==
    \A d \in CpuDescriptorIds :
        \/ cpuDescriptors[d].heap = NULL
        \/ /\ cpuDescriptors[d].cpuHandleIndex \in
                  0..(stagingDescriptorHeap.currentDescriptorIndex - 1)
           /\ cpuDescriptors[d].cpuHandleIndex \notin FreeSlots

Unretired == {cb \in ResourceCommandBuffers : rcb[cb].state \in {"recording", "submitted"}}

\* C19: a buffer or texture sub-resource is used by the recorded commands of
\* some unretired command buffer exactly if its reference count is not zero,
\* for every kind of use, indirect-argument buffers included.
C19_ReferencedIffUsed ==
    /\ \A b \in BufferIds :
          (\E cb \in Unretired : b \in rcb[cb].usedBuffers \cup indirectBuffers[cb])
              <=> buffers[b].referenceCount # 0
    /\ \A t \in TextureIds, s \in Subresources :
          (\E cb \in Unretired : <<t, s>> \in rcb[cb].usedTextureSubresources)
              <=> textures[t].subresources[s].referenceCount # 0

\* C17: the active texture of a swapchain texture container never changes and
\* a write preparation never adds a texture to the container, whatever the
\* cycle flag and however many command buffers have the back buffer in flight.
C17_SwapchainContainerFixed ==
    /\ textureContainers["swapchain"].activeTexture = InitialTexture("swapchain")
    /\ textureContainers["swapchain"].textures = <<InitialTexture("swapchain")>>

\* A write to the swapchain texture with cycle = TRUE was prepared while a
\* submitted command buffer still referenced the back buffer.
C17_Witness ==
    /\ lastPrepare.kind = "texture"
    /\ lastPrepare.cycle
    /\ ~lastPrepare.canBeCycled
    /\ lastPrepare.referenceCount > 0
    /\ \E cb \in ResourceCommandBuffers :
          /\ rcb[cb].state = "submitted"
          /\ <<InitialTexture("swapchain"), 0>> \in rcb[cb].usedTextureSubresources

\* C18: at the moment a command buffer is retired, the GPU has finished
\* executing its command list; this also when a fence taken through
\* SubmitAndAcquireFence is released before it is signalled and is then reused
\* from the pool for a later submission.
C18_RetiredOnlyAfterExecution ==
    \A r \in lastCall.retired :
        \A i \in 1..Len(commandQueue) :
            commandQueue[i] # <<"execute", r.commandBuffer>>

\* The holders of a fence: the submitted command buffer that releases it when
\* it is retired, the application after SubmitAndAcquireFence, and the window's
\* in-flight slots that record it.
FenceHolders(fence) ==
    Cardinality({c \in CommandBufferIds :
                    /\ commandBuffers[c].state = "submitted"
                    /\ commandBuffers[c].autoReleaseFence
                    /\ commandBuffers[c].inFlightFence = fence})
    + (IF fence \in heldFences THEN 1 ELSE 0)
    + Cardinality({i \in FrameSlots : windowData.inFlightFences[i] = fence})

\* C20: between calls, the reference count of every fence the device has
\* created equals the number of its holders, is never negative, and the fence
\* is outside the available pool exactly while it has a holder.
C20_ReferenceCountIsHolders ==
    thread.op = "idle" =>
        \A f \in FenceIds :
            fences[f].created =>
                /\ fences[f].referenceCount = FenceHolders(f)
                /\ fences[f].referenceCount >= 0
                /\ ~InFencePool(f) <=> FenceHolders(f) >= 1

\* C21: when a swapchain operation has freed the window's back-buffer
\* textures, no unretired command buffer, recording ones included, has the
\* window in its present list.
C21_FreedBackBuffersUnused ==
    (/\ lastCall.op \in {"SetSwapchainParameters", "UnclaimWindow"}
     /\ lastCall.before.textureContainers # windowData.textureContainers)
        => \A c \in CommandBuffersInUse : commandBuffers[c].presentDataCount = 0

\* C22: every transition barrier names as its before-state the state the
\* sub-resource is in when the barrier is recorded: the barrier BeginRenderPass
\* records on its colour attachment and the barrier Submit records on the back
\* buffer it presents both find the sub-resource in its default state.
C22_BarriersNameActualState ==
    [][\A cb \in ResourceCommandBuffers :
          /\ (rcb[cb].pass = "none" /\ rcb'[cb].pass = "render") =>
                 LET sub == rcb'[cb].colorAttachmentTextureSubresources
                 IN  textures[sub[1]].container # NoContainer =>
                        textures[sub[1]].subresources[sub[2]].state =
                            TextureDefaultState(textures, sub[1])
          /\ (/\ rcb[cb].state = "recording"
              /\ rcb'[cb].state = "submitted"
              /\ rcb[cb].presentDataCount > 0) =>
                 LET sub == BackBuffer(textureContainers)
                 IN  textures[sub[1]].subresources[sub[2]].state =
                         TextureDefaultState(textures, sub[1])]_vars

\* C23: a thread that has returned from Wait or WaitForFences, by whatever
\* path, does not own the submit lock.
C23_ReturnReleasesSubmitLock ==
    \A t \in LockThreadIds :
        (lockThreads[t].pc = "idle" /\ lockThreads[t].op \in {"Wait", "WaitForFences"})
            => submitLock # t

WrapperUnretired == {cb \in WrapperCommandBuffers : wcb[cb].state \in {"recording", "submitted"}}

WrapperUsedBy(cb) ==
    {wcb[cb].usedUniformBuffers[i] : i \in 1..Len(wcb[cb].usedUniformBuffers)}

\* C24: a uniform wrapper in the free pool is in the used list of no unretired
\* command buffer, no wrapper is in the pool twice, and no wrapper is in the
\* used lists of two unretired command buffers.
C24_PooledWrappersUnused ==
    /\ \A i \in 1..Len(wrapperPool) :
          /\ \A cb \in WrapperUnretired : wrapperPool[i] \notin WrapperUsedBy(cb)
          /\ \A j \in 1..Len(wrapperPool) : wrapperPool[i] = wrapperPool[j] => i = j
    /\ \A a, b \in WrapperUnretired :
          a # b => WrapperUsedBy(a) \cap WrapperUsedBy(b) = {}

\* A command buffer that replaced a full wrapper is unretired while another
\* command buffer's wrapper is back in the pool.
C24_Witness ==
    /\ wrapperPool # <<>>
    /\ \E cb \in WrapperUnretired :
          \E w \in WrapperUsedBy(cb) :
              \A st \in WrapperStages : wcb[cb].slots[st] # w

\* C26: when Submit(cb) has returned, no uniform wrapper used by cb is mapped,
\* whichever stage it served.
C26_SubmittedWrappersUnmapped ==
    \A cb \in WrapperCommandBuffers :
        wcb[cb].state = "submitted" =>
            \A w \in WrapperUsedBy(cb) : ~wrapperMapped[w]

HeapUnretired == {cb \in HeapCommandBuffers : hcb[cb].state \in {"recording", "submitted"}}

\* C25: a GPU descriptor heap in its pool is held by no unretired command
\* buffer, no heap is in its pool twice, and no heap is held by two unretired
\* command buffers.
C25_PooledHeapsUnheld ==
    \A type \in GpuHeapTypes :
        LET pool == descriptorHeapPools[type]
        IN  /\ \A i \in 1..Len(pool) :
                  /\ \A cb \in HeapUnretired :
                        hcb[cb].gpuDescriptorHeaps[type] # pool[i]
                  /\ \A j \in 1..Len(pool) : pool[i] = pool[j] => i = j
            /\ \A a, b \in HeapUnretired :
                  a # b => hcb[a].gpuDescriptorHeaps[type] # hcb[b].gpuDescriptorHeaps[type]

\* An unretired command buffer has written into a heap that came out of the
\* pool after another command buffer's use, while a heap is in the pool.
C25_Witness ==
    \E type \in GpuHeapTypes :
        /\ descriptorHeapPools[type] # <<>>
        /\ \E a \in HeapUnretired, b \in HeapCommandBuffers :
              /\ a # b
              /\ hcb[b].state = "available"
              /\ hcb[a].gpuDescriptorHeaps[type] = hcb[b].gpuDescriptorHeaps[type]
              /\ gpuHeaps[type][hcb[a].gpuDescriptorHeaps[type]] > 0

\* C27: the command buffer AcquireCommandBuffer returns has every binding
\* slot empty, every dirty flag cleared and autoReleaseFence set; the uniform
\* slots and their dirty flags stand for the binding state.
C27_AcquiredCommandBufferIsClean ==
    [][(ucbState = "available" /\ ucbState' = "recording") =>
          /\ \A k \in UniformSlots : slotUniformBuffers'[k] = NULL
          /\ \A k \in UniformSlots : ~needUniformBufferBind'[k]
          /\ ~currentGraphicsPipeline']_vars

\* C28: BeginRenderPass clears the depth aspect exactly when loadOp is CLEAR
\* and the stencil aspect exactly when stencilLoadOp is CLEAR; an aspect that
\* is not cleared keeps the values in the texture.
C28_ClearsExactlyOnClear ==
    [][(~depthStencilPass.inProgress /\ depthStencilPass'.inProgress) =>
          /\ depthStencilTexture'.depth =
                IF depthStencilPass'.loadOp = "CLEAR"
                THEN depthStencilPass'.depthStencilClearValue.depth
                ELSE depthStencilTexture.depth
          /\ depthStencilTexture'.stencil =
                IF depthStencilPass'.stencilLoadOp = "CLEAR"
                THEN depthStencilPass'.depthStencilClearValue.stencil
                ELSE depthStencilTexture.stencil]_vars

\* The destination region has the width, height and depth of the texture.
BlitCoversDestination ==
    /\ lastBlit.destination.w = lastBlit.destinationTextureCreateInfo.width
    /\ lastBlit.destination.h = lastBlit.destinationTextureCreateInfo.height
    /\ lastBlit.destination.d = lastBlit.destinationTextureCreateInfo.depth

\* C29: Blit begins its render pass with loadOp DONT_CARE when the destination
\* texture has one layer and one mip level and the destination region has the
\* texture's width, height and depth, and with loadOp LOAD otherwise.
C29_BlitLoadOpFollowsCoverage ==
    lastBlit.loadOp # "NONE" =>
        lastBlit.loadOp =
            IF /\ lastBlit.destinationTextureCreateInfo.layerCount = 1
               /\ lastBlit.destinationTextureCreateInfo.levelCount = 1
               /\ BlitCoversDestination
            THEN "DONT_CARE" ELSE "LOAD"

\* A blit over the whole of a texture of one layer and one level.
C29_Witness ==
    /\ lastBlit.loadOp # "NONE"
    /\ lastBlit.destinationTextureCreateInfo.layerCount = 1
    /\ lastBlit.destinationTextureCreateInfo.levelCount = 1
    /\ BlitCoversDestination
    /\ lastBlit.destinationTextureCreateInfo.width = MaxExtent

\* C29 as stated: loadOp CLEAR when the region covers the whole destination
\* texture, LOAD otherwise.
C29_BlitClearsWhenCovered ==
    lastBlit.loadOp # "NONE" =>
        lastBlit.loadOp =
            IF /\ lastBlit.destinationTextureCreateInfo.layerCount = 1
               /\ lastBlit.destinationTextureCreateInfo.levelCount = 1
               /\ BlitCoversDestination
            THEN "CLEAR" ELSE "LOAD"

\* C30: when Blit or UploadToTexture has returned, having given up part-way
\* or not, no render pass is open on a command buffer and every texture
\* sub-resource, the ones the operation transitioned included, is in its
\* default state.
C30_GiveUpLeavesNothingOpen ==
    /\ \A cb \in ResourceCommandBuffers : rcb[cb].pass = "none"
    /\ \A t \in TextureIds, s \in Subresources :
          textures[t].container # NoContainer =>
              textures[t].subresources[s].state = TextureDefaultState(textures, t)

\* C31: the cursor of a GPU descriptor heap never exceeds the heap's capacity,
\* however many descriptors a command buffer writes before it is submitted.
C31_CursorWithinCapacity ==
    \A type \in GpuHeapTypes, heap \in GpuHeapIds :
        gpuHeaps[type][heap] <= GpuDescriptorCount(type)

\* C39: every GPU descriptor heap a command buffer is handed when it is
\* acquired, freshly created or taken from the pool after earlier use, has its
\* cursor at zero.
C39_AcquiredHeapCursorZero ==
    [][\A cb \in HeapCommandBuffers :
          (hcb[cb].state = "available" /\ hcb'[cb].state = "recording") =>
              \A type \in GpuHeapTypes :
                  gpuHeaps'[type][hcb'[cb].gpuDescriptorHeaps[type]] = 0]_vars

\* A recording command buffer holds, with the cursor at zero, a heap that
\* another command buffer used before and returned.
C39_Witness ==
    \E type \in GpuHeapTypes :
        \E a, b \in HeapCommandBuffers :
            /\ a # b
            /\ hcb[a].state = "recording"
            /\ hcb[b].state = "available"
            /\ hcb[b].gpuDescriptorHeaps[type] # NULL
            /\ hcb[a].gpuDescriptorHeaps[type] = hcb[b].gpuDescriptorHeaps[type]
            /\ gpuHeaps[type][hcb[a].gpuDescriptorHeaps[type]] = 0

PoolSubmittedSet == {poolSubmitted[i] : i \in 1..Len(poolSubmitted)}

\* C32: a command buffer in the available pool, or handed out by
\* AcquireCommandBuffer, is not in the submitted list, and no command buffer
\* is in the available pool twice.
C32_AvailableNotSubmitted ==
    /\ \A i \in 1..Len(poolAvailable) : poolAvailable[i] \notin PoolSubmittedSet
    /\ poolAcquired \cap PoolSubmittedSet = {}
    /\ \A i, j \in 1..Len(poolAvailable) : poolAvailable[i] = poolAvailable[j] => i = j

\* C33: a thread that is about to write to a shared pool, or has just written
\* to it, owns the pool's lock, and no pooled object is taken by two threads
\* or is in its pool while a thread has it.
C33_PoolWritesUnderLock ==
    /\ \A t \in SharedPoolThreadIds :
          sharedPoolThreads[t].pc # "idle" =>
              sharedPoolLocks[sharedPoolThreads[t].pool] = t
    /\ \A t, u \in SharedPoolThreadIds :
          t # u => sharedPoolHeld[t] \cap sharedPoolHeld[u] = {}
    /\ \A t \in SharedPoolThreadIds, pool \in SharedPoolNames :
          \A i \in 1..Len(sharedPools[pool]) :
              <<pool, sharedPools[pool][i]>> \notin sharedPoolHeld[t]

\* One thread is inside an acquisition on a pool, having read the object it
\* will take, while another thread that wants the same pool has to wait,
\* and the waiting thread holds an object of that pool.
C33_Witness ==
    \E t, u \in SharedPoolThreadIds :
        /\ t # u
        /\ sharedPoolThreads[t].pc = "read"
        /\ sharedPoolThreads[u].pc = "idle"
        /\ \E o \in 1..MaxPooledObjects :
              <<sharedPoolThreads[t].pool, o>> \in sharedPoolHeld[u]

\* C34: after the command buffer of a download through a temporary buffer has
\* retired, the destination buffer holds, for every slice s, row r and byte b
\* of a row, at bufferOffset + s * bytesPerDepthSlice + r * bytesPerRow + b the
\* byte the GPU wrote at (s * height + r) * alignedBytesPerRow + b of the
\* temporary buffer.
C34_DownloadCopiesEveryRow ==
    (downloadPc = "retired" /\ textureDownload.temporary) =>
        \A s \in 0..(textureDownload.depth - 1), r \in 0..(textureDownload.height - 1),
           b \in 0..(textureDownload.bytesPerRow - 1) :
            destinationBufferBytes[textureDownload.bufferOffset
                                     + s * textureDownload.bytesPerDepthSlice
                                     + r * textureDownload.bytesPerRow + b + 1]
                = temporaryBufferBytes[(s * textureDownload.height + r)
                                         * textureDownload.alignedBytesPerRow + b + 1]

C36_PushAdvancesWriteOffset ==
    lastPush.pushed =>
        pushWrappers[lastPush.wrapper].writeOffset = lastPush.offset + lastPush.block

\* C37: for every wrapper, writeOffset is at most the wrapper size and
\* drawOffset is at most writeOffset, and the wrapper a push has just written
\* into has the 256-byte alignment of that push as its currentBlockSize.
C37_WrapperFieldsConsistent ==
    /\ \A w \in UniformWrappers :
          /\ pushWrappers[w].writeOffset <= UNIFORM_BUFFER_SIZE
          /\ pushWrappers[w].drawOffset <= pushWrappers[w].writeOffset
    /\ lastPush.pushed =>
          pushWrappers[lastPush.wrapper].currentBlockSize = lastPush.block

C40_PooledFencesUnsignalled ==
    \A i \in 1..Len(availableFences) :
        fences[availableFences[i]].value = D3D12_FENCE_UNSIGNALED_VALUE

\* C40 (amended): a fence keeps its value when it is returned to the pool, and
\* is reset to 0 when it is taken out of the pool: a fence that has just left
\* the pool has value 0.
C40_FenceResetWhenAcquired ==
    [][\A f \in FenceIds :
          /\ (~InFencePool(f) /\ InFencePool(f)') =>
                fences'[f].value = fences[f].value
          /\ (InFencePool(f) /\ ~InFencePool(f)') =>
                fences'[f].value = D3D12_FENCE_UNSIGNALED_VALUE]_vars

\* The pool holds a fence that still reads 1, and the fence of a submitted
\* command buffer, which is not in the pool, reads 0.
C40_Witness ==
    /\ \E f \in FenceIds :
          InFencePool(f) /\ fences[f].value = D3D12_FENCE_SIGNAL_VALUE
    /\ \E c \in CommandBufferIds :
          /\ commandBuffers[c].state = "submitted"
          /\ ~InFencePool(commandBuffers[c].inFlightFence)
          /\ fences[commandBuffers[c].inFlightFence].value = D3D12_FENCE_UNSIGNALED_VALUE

====
